---- MODULE Spec2Model ----
(***************************************************************************)
(* pdf-large-reader: strategy selection, memory estimation and the two     *)
(* page iterators (stream_pdf_pages, chunk_pdf) of src/src/streaming.py    *)
(* and src/src/assessment.py.                                              *)
(*                                                                         *)
(* The document engine (fitz) is the environment: a document is a fixed    *)
(* value chosen in Init, and every engine call reads that value.           *)
(* A generator is modelled by one action per next() call, which runs the   *)
(* generator body from where it is suspended to the next yield, return or  *)
(* raise (a finally block included), and one action for close().           *)
(***************************************************************************)
EXTENDS Integers, Sequences, FiniteSets, TLC

VARIABLES doc, iters, selArgs, selRet, memArgs, memRet, call, ret, pipe,
          _fallback_stats

vars == <<doc, iters, selArgs, selRet, memArgs, memRet, call, ret, pipe,
         _fallback_stats>>

(***************************************************************************)
(* Bounds of the model.                                                    *)
(***************************************************************************)
MaxPages == 4
MaxChunk == 3
MaxIssues == 2

MaxPipelinePages == 3

Min(a, b) == IF a < b THEN a ELSE b

RECURSIVE Flatten(_)
Flatten(ss) == IF ss = <<>> THEN <<>> ELSE Head(ss) \o Flatten(Tail(ss))

(***************************************************************************)
(* The document engine.                                                    *)
(* A page answers doc[page_num] (access), page.get_text() (text) and       *)
(* page.get_images() with a list of xrefs; images[j] says whether          *)
(* doc.extract_image / Image.open succeeds on the j-th xref.               *)
(***************************************************************************)
PlainPage == [access |-> TRUE, text |-> TRUE, images |-> <<>>]

ImagePage == [access |-> TRUE, text |-> TRUE, images |-> <<FALSE, TRUE>>]

NoTextPage == [access |-> TRUE, text |-> FALSE, images |-> <<>>]

NoAccessPage == [access |-> FALSE, text |-> FALSE, images |-> <<>>]

PageKinds == {PlainPage, ImagePage, NoTextPage, NoAccessPage}

PageLists == UNION {[1..n -> PageKinds] : n \in 0..MaxPages}

\* file_path.exists() is false; fitz.open is never reached.
MissingFile == [exists |-> FALSE, openable |-> FALSE, pages |-> <<>>]

\* file_path.exists() is true and fitz.open raises.
InvalidFile == [exists |-> TRUE, openable |-> FALSE, pages |-> <<>>]

Documents ==
    {MissingFile, InvalidFile}
        \cup {[exists |-> TRUE, openable |-> TRUE, pages |-> ps] : ps \in PageLists}

\* The document of the specifications that call no engine.
NoDocument == MissingFile

doc_page_count(d) == Len(d.pages)

(***************************************************************************)
(* PDFPage, and the extraction of one page, which stream_pdf_pages and     *)
(* chunk_pdf both spell out inline.  The text of page p is the token p.    *)
(* metadata (page.rect, rotation, mediabox) is read from the page object   *)
(* already obtained and layout is always None; neither is kept.            *)
(***************************************************************************)
PDFPage(page_number, text, images) ==
    [page_number |-> page_number, text |-> text, images |-> images]

\* The images whose extraction succeeds, in image_list order; a failing one
\* is logged and left out.
ExtractImagesInline(image_list) ==
    LET RECURSIVE Go(_, _)
        Go(j, acc) ==
            IF j > Len(image_list) THEN acc
            ELSE Go(j + 1, IF image_list[j] THEN Append(acc, j) ELSE acc)
    IN  Go(1, <<>>)

\* The number of logger.warning calls of the image loop.
ImageWarnings(image_list) == Cardinality({j \in DOMAIN image_list : ~image_list[j]})

\* doc[page_num] ... PDFPage(...) for the 0-based page_num.
ExtractPage(d, page_num) ==
    LET pg == d.pages[page_num + 1] IN
    IF ~pg.access THEN [error |-> "PageAccessError"]
    ELSE IF ~pg.text THEN [error |-> "TextExtractionError"]
    ELSE [error |-> "none",
          page |-> PDFPage(page_num + 1, page_num + 1, ExtractImagesInline(pg.images)),
          warnings |-> ImageWarnings(pg.images)]

(***************************************************************************)
(* Iterator (generator) state.                                             *)
(*   pc        "created"   the generator object exists, no code has run    *)
(*             "suspended" at a yield                                      *)
(*             "done"      the body returned (StopIteration)               *)
(*             "failed"    an exception left the body                      *)
(*             "closed"    the consumer called close()                     *)
(*   handle    the fitz document of this invocation                        *)
(*   next_page page_num (stream) or start_page (chunk) of the next step    *)
(*   yielded   the items handed to the consumer, in order                  *)
(*   progress  the (current, total) pairs given to progress_callback       *)
(*   exists_checks, open_calls, closes, page_reads, warnings are counts of      *)
(*   file_path.exists(), fitz.open(), doc.close(), doc[page_num] and       *)
(*   logger.warning calls.                                                 *)
(***************************************************************************)
NewIterator(kind, chunk_pages, overlap, has_callback) ==
    [kind |-> kind, chunk_pages |-> chunk_pages, overlap |-> overlap,
     has_callback |-> has_callback,
     pc |-> "created", error |-> "none", handle |-> "none",
     next_page |-> 0, yielded |-> <<>>, progress |-> <<>>,
     exists_checks |-> 0, open_calls |-> 0, closes |-> 0, page_reads |-> 0,
     warnings |-> 0]

\* An exception leaves the body before the try block: no handle to release.
Raise(it, err) == [it EXCEPT !.pc = "failed", !.error = err]

\* The finally block: doc.close().
Finally(it) == [it EXCEPT !.handle = "closed", !.closes = @ + 1]

\* file_path.exists() and fitz.open(file_path), in the order of the code.
OpenDocument(it, d) ==
    LET checked == [it EXCEPT !.exists_checks = @ + 1] IN
    IF ~d.exists THEN Raise(checked, "FileNotFoundError")
    ELSE LET tried == [checked EXCEPT !.open_calls = @ + 1] IN
         IF ~d.openable THEN Raise(tried, "ValueError: Invalid PDF file")
         ELSE [tried EXCEPT !.handle = "open"]

(***************************************************************************)
(* stream_pdf_pages.                                                       *)
(***************************************************************************)
\* The call of progress_callback(page_num + 1, total_pages); cb_ok says
\* whether the consumer's callback returns.  A raise leaves the body through
\* the finally block.
CallProgress(it, d, page_num, cb_ok) ==
    IF ~it.has_callback THEN it
    ELSE LET called == [it EXCEPT !.progress = Append(@, <<page_num + 1, doc_page_count(d)>>)] IN
         IF cb_ok THEN called
         ELSE Finally([called EXCEPT !.pc = "failed", !.error = "CallbackError"])

\* Faulty variant: a failing page is caught and the loop goes on to the next.
StreamLoopSkipsFailedPage(it, d, cb_ok) ==
    LET RECURSIVE Go(_)
        Go(s) ==
            IF s.next_page >= doc_page_count(d)
            THEN Finally([s EXCEPT !.pc = "done"])
            ELSE LET r == ExtractPage(d, s.next_page)
                     read == [s EXCEPT !.page_reads = @ + 1]
                 IN  IF r.error # "none"
                     THEN Go([read EXCEPT !.next_page = @ + 1])
                     ELSE LET told == CallProgress([read EXCEPT !.warnings = @ + r.warnings],
                                                   d, s.next_page, cb_ok)
                          IN  IF told.pc = "failed" THEN told
                              ELSE [told EXCEPT !.pc = "suspended",
                                                !.yielded = Append(@, r.page),
                                                !.next_page = @ + 1]
    IN  Go(it)

\* Faulty variant: a page error leaves the body without the finally block.
StreamLoopLeaksHandle(it, d, cb_ok) ==
    LET page_num == it.next_page IN
    IF page_num >= doc_page_count(d)
    THEN Finally([it EXCEPT !.pc = "done"])
    ELSE LET r == ExtractPage(d, page_num)
             read == [it EXCEPT !.page_reads = @ + 1]
         IN  IF r.error # "none"
             THEN [read EXCEPT !.pc = "failed", !.error = r.error]
             ELSE LET told == CallProgress([read EXCEPT !.warnings = @ + r.warnings],
                                           d, page_num, cb_ok)
                  IN  IF told.pc = "failed" THEN told
                      ELSE [told EXCEPT !.pc = "suspended",
                                        !.yielded = Append(@, r.page),
                                        !.next_page = page_num + 1]

\* Faulty variant: page_number = page_num, the 0-based index.
StreamLoopZeroIndexed(it, d, cb_ok) ==
    LET page_num == it.next_page IN
    IF page_num >= doc_page_count(d)
    THEN Finally([it EXCEPT !.pc = "done"])
    ELSE LET r == ExtractPage(d, page_num)
             read == [it EXCEPT !.page_reads = @ + 1]
         IN  IF r.error # "none"
             THEN Finally([read EXCEPT !.pc = "failed", !.error = r.error])
             ELSE LET told == CallProgress([read EXCEPT !.warnings = @ + r.warnings],
                                           d, page_num, cb_ok)
                  IN  IF told.pc = "failed" THEN told
                      ELSE [told EXCEPT !.pc = "suspended",
                                        !.yielded = Append(@, [r.page EXCEPT !.page_number = page_num]),
                                        !.next_page = page_num + 1]

\* Faulty variant: the progress of a page is reported only when the
\* generator is resumed after the yield of that page.
StreamLoopReportsAfterYield(it, d, cb_ok) ==
    LET page_num == it.next_page
        told == IF page_num > 0 THEN CallProgress(it, d, page_num - 1, cb_ok) ELSE it
    IN  IF told.pc = "failed" THEN told
        ELSE IF page_num >= doc_page_count(d)
        THEN Finally([told EXCEPT !.pc = "done"])
        ELSE LET r == ExtractPage(d, page_num)
                 read == [told EXCEPT !.page_reads = @ + 1]
             IN  IF r.error # "none"
                 THEN Finally([read EXCEPT !.pc = "failed", !.error = r.error])
                 ELSE [read EXCEPT !.pc = "suspended",
                                   !.warnings = @ + r.warnings,
                                   !.yielded = Append(@, r.page),
                                   !.next_page = page_num + 1]

\* One pass of `for page_num in range(total_pages)` from the resume point to
\* the next yield, or the end of the loop and the finally block.
StreamLoop(it, d, cb_ok) ==
    LET page_num == it.next_page IN
    IF page_num >= doc_page_count(d)
    THEN Finally([it EXCEPT !.pc = "done"])
    ELSE LET r == ExtractPage(d, page_num)
             read == [it EXCEPT !.page_reads = @ + 1]
         IN  IF r.error # "none"
             THEN Finally([read EXCEPT !.pc = "failed", !.error = r.error])
             ELSE LET told == CallProgress([read EXCEPT !.warnings = @ + r.warnings],
                                           d, page_num, cb_ok)
                  IN  IF told.pc = "failed" THEN told
                      ELSE [told EXCEPT !.pc = "suspended",
                                        !.yielded = Append(@, r.page),
                                        !.next_page = page_num + 1]

\* next() on the generator: the first call runs the code before the loop.
StreamResume(it, d, cb_ok) ==
    LET s == IF it.pc = "created" THEN OpenDocument(it, d) ELSE it IN
    IF s.pc = "failed" THEN s ELSE StreamLoop(s, d, cb_ok)

(***************************************************************************)
(* chunk_pdf.                                                              *)
(***************************************************************************)
\* The pages of range(start_page, end_page), extracted in order up to the
\* first page whose extraction raises: [error, chunk, reads, warnings].
ExtractRange(d, start_page, end_page) ==
    LET RECURSIVE Go(_, _)
        Go(page_num, acc) ==
            IF page_num >= end_page THEN acc
            ELSE LET r == ExtractPage(d, page_num) IN
                 IF r.error # "none"
                 THEN [acc EXCEPT !.error = r.error, !.reads = @ + 1]
                 ELSE Go(page_num + 1,
                         [acc EXCEPT !.chunk = Append(@, r.page), !.reads = @ + 1,
                                     !.warnings = @ + r.warnings])
    IN  Go(start_page, [error |-> "none", chunk |-> <<>>, reads |-> 0, warnings |-> 0])

\* Faulty variant: start_page += chunk_pages, the overlap forgotten.
ChunkLoopIgnoresOverlap(it, d) ==
    LET start_page == it.next_page
        total_pages == doc_page_count(d)
    IN  IF ~(start_page < total_pages)
        THEN Finally([it EXCEPT !.pc = "done"])
        ELSE LET end_page == Min(start_page + it.chunk_pages, total_pages)
                 r == ExtractRange(d, start_page, end_page)
                 read == [it EXCEPT !.page_reads = @ + r.reads, !.warnings = @ + r.warnings]
             IN  IF r.error # "none"
                 THEN Finally([read EXCEPT !.pc = "failed", !.error = r.error])
                 ELSE [read EXCEPT !.pc = "suspended",
                                   !.yielded = Append(@, r.chunk),
                                   !.next_page = start_page + it.chunk_pages]

\* Faulty variant: the loop ends once a window has reached the last page.
ChunkLoopEndsAtLastPage(it, d) ==
    LET start_page == it.next_page
        total_pages == doc_page_count(d)
    IN  IF ~(start_page < total_pages)
        THEN Finally([it EXCEPT !.pc = "done"])
        ELSE LET end_page == Min(start_page + it.chunk_pages, total_pages)
                 step_size == it.chunk_pages - it.overlap
                 r == ExtractRange(d, start_page, end_page)
                 read == [it EXCEPT !.page_reads = @ + r.reads, !.warnings = @ + r.warnings]
             IN  IF r.error # "none"
                 THEN Finally([read EXCEPT !.pc = "failed", !.error = r.error])
                 ELSE [read EXCEPT !.pc = "suspended",
                                   !.yielded = Append(@, r.chunk),
                                   !.next_page = IF end_page = total_pages
                                                 THEN total_pages
                                                 ELSE start_page + step_size]

\* One pass of `while start_page < total_pages` from the resume point to the
\* next yield, or the end of the loop and the finally block.
ChunkLoop(it, d) ==
    LET start_page == it.next_page
        total_pages == doc_page_count(d)
    IN  IF ~(start_page < total_pages)
        THEN Finally([it EXCEPT !.pc = "done"])
        ELSE LET end_page == Min(start_page + it.chunk_pages, total_pages)
                 step_size == it.chunk_pages - it.overlap
                 r == ExtractRange(d, start_page, end_page)
                 read == [it EXCEPT !.page_reads = @ + r.reads, !.warnings = @ + r.warnings]
             IN  IF r.error # "none"
                 THEN Finally([read EXCEPT !.pc = "failed", !.error = r.error])
                 ELSE [read EXCEPT !.pc = "suspended",
                                   !.yielded = Append(@, r.chunk),
                                   !.next_page = start_page + step_size]

\* Faulty variant: the path and the open come before the parameter test.
ChunkPrologueChecksPathFirst(it, d) ==
    LET s == OpenDocument(it, d) IN
    IF s.pc = "failed" THEN s
    ELSE IF it.overlap >= it.chunk_pages
         THEN Raise(s, "ValueError: Overlap must be less than chunk_pages")
         ELSE s

\* The code before the try block: parameters, then the path, then the open.
ChunkPrologue(it, d) ==
    IF it.overlap >= it.chunk_pages
    THEN Raise(it, "ValueError: Overlap must be less than chunk_pages")
    ELSE OpenDocument(it, d)

ChunkResume(it, d) ==
    LET s == IF it.pc = "created" THEN ChunkPrologue(it, d) ELSE it IN
    IF s.pc = "failed" THEN s ELSE ChunkLoop(s, d)

\* generator.close(): GeneratorExit is raised at the yield the body is
\* suspended at and the finally block runs; a generator that never started
\* runs no code.
CloseIterator(it) ==
    IF it.pc = "suspended" THEN Finally([it EXCEPT !.pc = "closed"])
    ELSE [it EXCEPT !.pc = "closed"]

(***************************************************************************)
(* _select_strategy (assessment.py).  complexity_score is a float in the   *)
(* code; the thresholds 50 and 70 are integers, so integer scores and      *)
(* their neighbours decide every comparison.                               *)
(***************************************************************************)
MB_10 == 10 * 1024 * 1024

MB_100 == 100 * 1024 * 1024

PDFIssue(issue_type, severity) == [issue_type |-> issue_type, severity |-> severity]

has_critical_issues(issues) == \E k \in DOMAIN issues : issues[k].severity = "critical"

\* Faulty variant: the size test precedes the critical-issue test.
_select_strategy_size_first(file_size, page_count, complexity_score, issues) ==
    IF file_size < MB_10 /\ complexity_score < 50 THEN "full_load"
    ELSE IF has_critical_issues(issues) THEN "stream_pages"
    ELSE IF file_size >= MB_100 \/ complexity_score > 70 \/ page_count > 500
         THEN "chunk_batch"
    ELSE "stream_pages"

\* Faulty variant: file_size > MB_100 for >=.
_select_strategy_off_by_one(file_size, page_count, complexity_score, issues) ==
    IF has_critical_issues(issues) THEN "stream_pages"
    ELSE IF file_size < MB_10 /\ complexity_score < 50 THEN "full_load"
    ELSE IF file_size > MB_100 \/ complexity_score > 70 \/ page_count > 500
         THEN "chunk_batch"
    ELSE "stream_pages"

_select_strategy(file_size, page_count, complexity_score, issues) ==
    IF has_critical_issues(issues) THEN "stream_pages"
    ELSE IF file_size < MB_10 /\ complexity_score < 50 THEN "full_load"
    ELSE IF file_size >= MB_100 \/ complexity_score > 70 \/ page_count > 500
         THEN "chunk_batch"
    ELSE "stream_pages"

(***************************************************************************)
(* estimate_memory_usage (assessment.py), from the file size and the page  *)
(* count it reads.  file_size / page_count is a float division compared    *)
(* with an integer t; for the sizes used here q > t iff file_size >        *)
(* t * page_count, and q < t likewise.  int(x * 1.2) truncates the float   *)
(* product, which equals the integer quotient 6x / 5 for every x below     *)
(* 2^31.                                                                   *)
(***************************************************************************)
\* Faulty variant: the peak counts 3 pages for 10.
estimate_memory_usage_no_overhead(file_size, page_count) ==
    LET base_memory == file_size
        avg_per_page ==
            IF page_count > 0 /\ file_size > 200 * 1024 * page_count
            THEN 10 * 1024 * 1024
            ELSE IF page_count <= 0 \/ file_size < 50 * 1024 * page_count
                 THEN 2 * 1024 * 1024
                 ELSE 5 * 1024 * 1024
    IN  [min_memory |-> base_memory + avg_per_page,
         recommended_memory |-> base_memory + (avg_per_page * 5),
         peak_memory |-> ((base_memory + (avg_per_page * 3)) * 6) \div 5,
         per_page_avg |-> avg_per_page]

\* Faulty variant: exactly 200KB per page counts as complex content.
estimate_memory_usage_inclusive(file_size, page_count) ==
    LET base_memory == file_size
        avg_per_page ==
            IF page_count > 0 /\ file_size >= 200 * 1024 * page_count
            THEN 10 * 1024 * 1024
            ELSE IF page_count <= 0 \/ file_size < 50 * 1024 * page_count
                 THEN 2 * 1024 * 1024
                 ELSE 5 * 1024 * 1024
    IN  [min_memory |-> base_memory + avg_per_page,
         recommended_memory |-> base_memory + (avg_per_page * 5),
         peak_memory |-> ((base_memory + (avg_per_page * 10)) * 6) \div 5,
         per_page_avg |-> avg_per_page]

estimate_memory_usage(file_size, page_count) ==
    LET base_memory == file_size
        avg_per_page ==
            IF page_count > 0 /\ file_size > 200 * 1024 * page_count
            THEN 10 * 1024 * 1024
            ELSE IF page_count <= 0 \/ file_size < 50 * 1024 * page_count
                 THEN 2 * 1024 * 1024
                 ELSE 5 * 1024 * 1024
    IN  [min_memory |-> base_memory + avg_per_page,
         recommended_memory |-> base_memory + (avg_per_page * 5),
         peak_memory |-> ((base_memory + (avg_per_page * 10)) * 6) \div 5,
         per_page_avg |-> avg_per_page]

(***************************************************************************)
(* The iterator specification: one document, one iterator, any consumer.   *)
(***************************************************************************)
NoIterators == [i \in {} |-> i]

\* The value of a result variable before the call returns.
NotCalled == [returned |-> FALSE]

StreamIterators == {NewIterator("stream", 1, 0, cb) : cb \in BOOLEAN}

ChunkIterators ==
    {NewIterator("chunk", c, o, FALSE) : c \in (-1)..MaxChunk, o \in (-2)..MaxChunk}

\* No process_large_pdf call.
NoPipeline == [pc |-> "none"]

\* _fallback_stats as the module creates it and as reset_fallback_stats
\* leaves it.
ZeroStats == [total_pages |-> 0, fallback_used |-> 0, codex_calls |-> 0, chrome_calls |-> 0]

\* No call of fallback.py has counted anything.
NoFallbackCalls == _fallback_stats = ZeroStats

\* The counters after n calls of extract_with_codex that went past the key
\* test.
CountCodexCalls(stats, n) ==
    [stats EXCEPT !.fallback_used = @ + n, !.codex_calls = @ + n]

\* No call of select_strategy, _calculate_complexity_score, detect_pdf_issues
\* or assess_pdf.
NoCall == call = <<>> /\ ret = NotCalled /\ pipe = NoPipeline /\ NoFallbackCalls

Idle ==
    /\ selArgs = <<>> /\ selRet = "none" /\ memArgs = <<>> /\ memRet = NotCalled
    /\ NoCall

Init ==
    /\ doc \in Documents
    /\ iters \in [{1} -> StreamIterators \cup ChunkIterators]
    /\ Idle

StreamNext(i) ==
    /\ iters[i].kind = "stream"
    /\ iters[i].pc \in {"created", "suspended"}
    /\ \E cb_ok \in BOOLEAN :
           iters' = [iters EXCEPT ![i] = StreamResume(@, doc, cb_ok)]
    /\ UNCHANGED <<doc, selArgs, selRet, memArgs, memRet, call, ret, pipe,
                 _fallback_stats>>

ChunkNext(i) ==
    /\ iters[i].kind = "chunk"
    /\ iters[i].pc \in {"created", "suspended"}
    /\ iters' = [iters EXCEPT ![i] = ChunkResume(@, doc)]
    /\ UNCHANGED <<doc, selArgs, selRet, memArgs, memRet, call, ret, pipe,
                 _fallback_stats>>

Close(i) ==
    /\ iters[i].pc \in {"created", "suspended"}
    /\ iters' = [iters EXCEPT ![i] = CloseIterator(@)]
    /\ UNCHANGED <<doc, selArgs, selRet, memArgs, memRet, call, ret, pipe,
                 _fallback_stats>>

Next ==
    \/ \E i \in DOMAIN iters : StreamNext(i)
    \/ \E i \in DOMAIN iters : ChunkNext(i)
    \/ \E i \in DOMAIN iters : Close(i)

Spec == Init /\ [][Next]_vars

(***************************************************************************)
(* The strategy-selection specification: _select_strategy applied to one   *)
(* argument tuple.                                                         *)
(***************************************************************************)
IssueSamples ==
    {PDFIssue("encryption", "critical"), PDFIssue("corruption", "high"),
     PDFIssue("missing_fonts", "medium"), PDFIssue("encoding", "low")}

IssueLists == UNION {[1..n -> IssueSamples] : n \in 0..MaxIssues}

SelFileSizes ==
    {0, 1024 * 1024, 5 * 1024 * 1024, MB_10 - 1, MB_10, MB_100 - 1, MB_100,
     150 * 1024 * 1024}

SelPageCounts == {0, 5, 20, 500, 501}

SelScores == {0, 30, 49, 50, 70, 71, 100}

SelInputs ==
    [file_size : SelFileSizes, page_count : SelPageCounts,
     complexity_score : SelScores, issues : IssueLists]

InitSelect ==
    /\ doc = NoDocument
    /\ iters = NoIterators
    /\ selArgs \in SelInputs
    /\ selRet = "none"
    /\ memArgs = <<>>
    /\ memRet = NotCalled
    /\ NoCall

SelectStrategyCall ==
    /\ selRet = "none"
    /\ selRet' = _select_strategy(selArgs.file_size, selArgs.page_count,
                                  selArgs.complexity_score, selArgs.issues)
    /\ UNCHANGED <<doc, iters, selArgs, memArgs, memRet, call, ret, pipe,
                 _fallback_stats>>

NextSelect == SelectStrategyCall

SpecSelect == InitSelect /\ [][NextSelect]_vars

(***************************************************************************)
(* The memory-estimate specification: estimate_memory_usage applied to one *)
(* (file_size, page_count).                                                *)
(***************************************************************************)
MemPageCounts == {0, 1, 2, 3, 7, 20, 500, 1001}

MemFileSizes(n) ==
    {0, MB_10, MB_100, 150 * 1024 * 1024}
        \cup {f \in {n * t * 1024 + d : t \in {50, 200}, d \in (-2)..2} : f >= 0}

MemInputs ==
    UNION {[file_size : MemFileSizes(n), page_count : {n}] : n \in MemPageCounts}

InitMemory ==
    /\ doc = NoDocument
    /\ iters = NoIterators
    /\ selArgs = <<>>
    /\ selRet = "none"
    /\ memArgs \in MemInputs
    /\ memRet = NotCalled
    /\ NoCall

EstimateMemoryCall ==
    /\ memRet = NotCalled
    /\ memRet' = estimate_memory_usage(memArgs.file_size, memArgs.page_count)
    /\ UNCHANGED <<doc, iters, selArgs, selRet, memArgs, call, ret, pipe,
                 _fallback_stats>>

NextMemory == EstimateMemoryCall

SpecMemory == InitMemory /\ [][NextMemory]_vars

(***************************************************************************)
(* Properties of _select_strategy (SpecSelect).                            *)
(***************************************************************************)
SelReturned == selRet # "none"

\* C1: whenever the issue list holds an issue of severity "critical", the
\* strategy returned is stream_pages, whatever file_size, page_count and
\* complexity_score are.
CriticalForcesStreamPages ==
    (SelReturned /\ \E k \in DOMAIN selArgs.issues : selArgs.issues[k].severity = "critical")
        => selRet = "stream_pages"

\* A document that would be loaded whole (1MB, score 0) but has a critical
\* issue among others, and is streamed.
CriticalSmallDocumentStreamed ==
    /\ SelReturned
    /\ selArgs.file_size = 1048576
    /\ selArgs.complexity_score = 0
    /\ Len(selArgs.issues) = 2
    /\ selArgs.issues[1].severity = "medium"
    /\ selArgs.issues[2].severity = "critical"
    /\ selRet = "stream_pages"

\* C2: without a critical issue the result is full_load iff file_size < 10MB
\* and complexity_score < 50; otherwise chunk_batch iff file_size >= 100MB or
\* complexity_score > 70 or page_count > 500; otherwise stream_pages; and
\* every call returns one of the three names.
SelectionCascade ==
    SelReturned =>
        LET small == selArgs.file_size < 10485760 /\ selArgs.complexity_score < 50
            large == \/ selArgs.file_size >= 104857600
                     \/ selArgs.complexity_score > 70
                     \/ selArgs.page_count > 500
            critical == \E k \in DOMAIN selArgs.issues :
                            selArgs.issues[k].severity = "critical"
        IN  /\ selRet \in {"full_load", "stream_pages", "chunk_batch"}
            /\ ~critical =>
                   /\ (selRet = "full_load") <=> small
                   /\ (selRet = "chunk_batch") <=> (~small /\ large)
                   /\ (selRet = "stream_pages") <=> (~small /\ ~large)

\* A file of exactly 100MB with a moderate score and few pages, no critical
\* issue: chunk_batch by the size threshold alone.
CascadeChunkBatchAtThreshold ==
    /\ SelReturned
    /\ selArgs.file_size = 104857600
    /\ selArgs.complexity_score = 50
    /\ selArgs.page_count = 5
    /\ selArgs.issues = <<PDFIssue("corruption", "high")>>
    /\ selRet = "chunk_batch"

(***************************************************************************)
(* Properties of estimate_memory_usage (SpecMemory).                       *)
(***************************************************************************)
MemReturned == memRet # NotCalled

\* C3: for file_size >= 0 and page_count >= 1 the estimate satisfies
\* min_memory < recommended_memory < peak_memory, peak_memory being the
\* truncated value.
MemoryEstimateOrdered ==
    (MemReturned /\ memArgs.file_size >= 0 /\ memArgs.page_count >= 1)
        => /\ memRet.min_memory < memRet.recommended_memory
           /\ memRet.recommended_memory < memRet.peak_memory

\* An estimate whose peak is a truncated quotient: 1.2 x (file_size + 10 x
\* 10MB) is no integer.
MemoryEstimateTruncatedPeak ==
    /\ MemReturned
    /\ memArgs.page_count = 7
    /\ memArgs.file_size = 7 * 204800 + 1
    /\ memRet.per_page_avg = 10485760
    /\ ((memArgs.file_size + 104857600) * 6) % 5 # 0
    /\ memRet.min_memory < memRet.recommended_memory
    /\ memRet.recommended_memory < memRet.peak_memory

(***************************************************************************)
(* Properties of the iterators (Spec).                                     *)
(***************************************************************************)
PageNumbers(pages) == [k \in DOMAIN pages |-> pages[k].page_number]

\* w[n:] and w[:n] and w[-n:] of a Python list, for n >= 0.
DropFirst(w, n) == SubSeq(w, n + 1, Len(w))

FirstN(w, n) == SubSeq(w, 1, Min(n, Len(w)))

LastN(w, n) == IF n = 0 THEN <<>> ELSE SubSeq(w, Len(w) - Min(n, Len(w)) + 1, Len(w))

\* The first window whole, every later window without its first n pages.
NonOverlapPortions(windows, n) ==
    [k \in DOMAIN windows |-> IF k = 1 THEN windows[k] ELSE DropFirst(windows[k], n)]

PageExtracts(pg) == pg.access /\ pg.text

PageErrors == {"PageAccessError", "TextExtractionError"}

\* The 1-based number of the first page whose extraction raises, 0 if none.
FirstBadPage(d) ==
    IF \A k \in DOMAIN d.pages : PageExtracts(d.pages[k]) THEN 0
    ELSE CHOOSE k \in DOMAIN d.pages :
             /\ ~PageExtracts(d.pages[k])
             /\ \A j \in 1..(k - 1) : PageExtracts(d.pages[j])

\* C4: for chunk_pages >= 1 and 0 <= overlap < chunk_pages, the first window
\* whole followed by every later window without its first `overlap` pages
\* is, once chunk_pdf is exhausted, the page numbers 1..page_count in order,
\* each once.
NonOverlapPortionsReconstruct ==
    \A i \in DOMAIN iters :
        LET it == iters[i] IN
        (it.kind = "chunk" /\ it.pc = "done" /\ it.chunk_pages >= 1
            /\ it.overlap >= 0 /\ it.overlap < it.chunk_pages)
        => PageNumbers(Flatten(NonOverlapPortions(it.yielded, it.overlap)))
               = [k \in 1..doc_page_count(doc) |-> k]

\* chunk_pdf exhausted over 4 pages with chunk_pages 3 and overlap 2: four
\* windows, the later ones carrying repeated pages.
OverlappingChunksExhausted ==
    \E i \in DOMAIN iters :
        /\ iters[i].kind = "chunk"
        /\ iters[i].pc = "done"
        /\ iters[i].chunk_pages = 3
        /\ iters[i].overlap = 2
        /\ doc_page_count(doc) = 4
        /\ Len(iters[i].yielded) = 4

\* C5: for overlap O > 0 and every two consecutive windows yielded by
\* chunk_pdf, the last O page numbers of the earlier window are the first O
\* page numbers of the later one.
ConsecutiveWindowsShareOverlap ==
    \A i \in DOMAIN iters :
        LET it == iters[i] IN
        (it.kind = "chunk" /\ it.overlap > 0 /\ it.overlap < it.chunk_pages)
        => \A k \in 1..(Len(it.yielded) - 1) :
               PageNumbers(LastN(it.yielded[k], it.overlap))
                   = PageNumbers(FirstN(it.yielded[k + 1], it.overlap))

\* C6: chunk_pdf with overlap >= chunk_pages raises ValueError on its first
\* step, having neither tested the path nor opened the document, and never
\* yields a window, whatever the file is.
InvalidOverlapRejectedFirst ==
    \A i \in DOMAIN iters :
        LET it == iters[i] IN
        (it.kind = "chunk" /\ it.overlap >= it.chunk_pages)
        => /\ it.yielded = <<>>
           /\ it.exists_checks = 0
           /\ it.open_calls = 0
           /\ it.handle = "none"
           /\ it.pc \in {"created", "failed", "closed"}
           /\ it.pc = "failed" =>
                  it.error = "ValueError: Overlap must be less than chunk_pages"

\* chunk_pdf(chunk_pages = 2, overlap = 2) stepped once over a missing file:
\* the ValueError, not FileNotFoundError.
InvalidOverlapOnMissingFile ==
    \E i \in DOMAIN iters :
        /\ iters[i].kind = "chunk"
        /\ iters[i].chunk_pages = 2
        /\ iters[i].overlap = 2
        /\ doc = MissingFile
        /\ iters[i].pc = "failed"
        /\ iters[i].error = "ValueError: Overlap must be less than chunk_pages"

\* C7: stream_pdf_pages yields page_number 1, 2, ... in order, one page per
\* step; exhausted, it has yielded exactly the page_count pages; and over a
\* document whose pages all extract it fails on no page.
StreamYieldsPagesInOrder ==
    \A i \in DOMAIN iters :
        LET it == iters[i] IN
        it.kind = "stream"
        => /\ \A k \in DOMAIN it.yielded : it.yielded[k].page_number = k
           /\ Len(it.yielded) <= doc_page_count(doc)
           /\ it.pc = "done" => Len(it.yielded) = doc_page_count(doc)
           /\ FirstBadPage(doc) = 0 => it.error \notin PageErrors

\* A stream exhausted over at least three pages.
StreamExhausted ==
    \E i \in DOMAIN iters :
        /\ iters[i].kind = "stream"
        /\ iters[i].pc = "done"
        /\ doc_page_count(doc) >= 3
        /\ Len(iters[i].yielded) = doc_page_count(doc)
        /\ doc.pages[2] = ImagePage

\* C8: a progress callback that raises on page k does not abort the single
\* page stream: page k, for which it was called, is yielded, and the stream
\* does not end with the callback's exception.
CallbackFailureDoesNotAbort ==
    \A i \in DOMAIN iters :
        LET it == iters[i] IN
        (it.kind = "stream" /\ it.has_callback)
        => /\ it.error # "CallbackError"
           /\ \A k \in DOMAIN it.progress :
                  /\ k <= Len(it.yielded)
                  /\ it.yielded[k].page_number = it.progress[k][1]

Terminal(it) == it.pc \in {"done", "failed", "closed"}

HandleDiscipline ==
    \A i \in DOMAIN iters :
        LET it == iters[i] IN
        /\ it.open_calls <= 1
        /\ it.closes <= 1
        /\ it.handle = "none" => it.closes = 0
        /\ it.handle = "open" => (it.open_calls = 1 /\ it.closes = 0)
        /\ it.handle = "closed" => (it.open_calls = 1 /\ it.closes = 1)
        /\ Terminal(it) => it.handle # "open"
        /\ it.page_reads > 0 => it.handle # "none"

NoReadOnceClosed ==
    \A i \in DOMAIN iters :
        iters[i].handle = "closed"
        => /\ iters'[i].page_reads = iters[i].page_reads
           /\ iters'[i].handle = "closed"
           /\ iters'[i].open_calls = iters[i].open_calls

\* C9: an invocation of stream_pdf_pages or chunk_pdf opens the document at
\* most once, and one that opened it closes it exactly once on exhaustion,
\* on close() by the consumer and on an error; pages are read only through
\* the handle, never after it is closed, and no terminal state holds an
\* open handle.
HandleOpenedOnceClosedOnce == []HandleDiscipline /\ [][NoReadOnceClosed]_vars

\* stream_pdf_pages failing on page 3 after yielding two pages: the handle
\* was opened once and is closed.
HandleClosedAfterPageError ==
    \E i \in DOMAIN iters :
        /\ iters[i].kind = "stream"
        /\ iters[i].pc = "failed"
        /\ iters[i].error = "PageAccessError"
        /\ Len(iters[i].yielded) = 2
        /\ iters[i].handle = "closed"
        /\ iters[i].open_calls = 1
        /\ iters[i].closes = 1

\* The successfully extracted images of a document page, as xref positions.
GoodImages(pg) ==
    LET good == {j \in DOMAIN pg.images : pg.images[j]} IN
    [k \in 1..Cardinality(good) |->
        CHOOSE j \in good : Cardinality({h \in good : h < j}) = k - 1]

\* C10: when page k fails in stream_pdf_pages the stream ends with that
\* error after yielding exactly pages 1..k-1; no failing page is skipped and
\* nothing at or after it is ever yielded.  In chunk_pdf the failure ends
\* the iteration too, in the window that holds the failing page, the windows
\* before it being the only ones yielded, and no window holds a failing page.
\* A failing image is left out of its page, which is yielded.
PageFailureIsFatal ==
    \A i \in DOMAIN iters :
        LET it == iters[i]
            bad == FirstBadPage(doc)
        IN  /\ it.error \in PageErrors => it.pc = "failed"
            /\ it.kind = "stream" =>
                   /\ \A k \in DOMAIN it.yielded :
                          /\ it.yielded[k].page_number = k
                          /\ PageExtracts(doc.pages[k])
                          /\ it.yielded[k].images = GoodImages(doc.pages[k])
                   /\ bad > 0 => (Len(it.yielded) < bad /\ it.pc # "done")
                   /\ it.error \in PageErrors =>
                          /\ Len(it.yielded) = bad - 1
                          /\ it.error = IF doc.pages[bad].access
                                        THEN "TextExtractionError"
                                        ELSE "PageAccessError"
            /\ it.kind = "chunk" =>
                   /\ \A w \in DOMAIN it.yielded : \A k \in DOMAIN it.yielded[w] :
                          LET pg == it.yielded[w][k] IN
                          /\ PageExtracts(doc.pages[pg.page_number])
                          /\ pg.images = GoodImages(doc.pages[pg.page_number])
                   /\ it.error \in PageErrors =>
                          /\ it.next_page = Len(it.yielded) * (it.chunk_pages - it.overlap)
                          /\ \E p \in (it.next_page + 1)..
                                      Min(it.next_page + it.chunk_pages, doc_page_count(doc)) :
                                 ~PageExtracts(doc.pages[p])

\* stream_pdf_pages over (image page, plain page, page without text): two
\* pages yielded, the first without its failing image, then the error.
StreamFailedOnThirdPage ==
    \E i \in DOMAIN iters :
        /\ iters[i].kind = "stream"
        /\ doc_page_count(doc) = 4
        /\ doc.pages[1] = ImagePage
        /\ doc.pages[3] = NoTextPage
        /\ iters[i].pc = "failed"
        /\ iters[i].error = "TextExtractionError"
        /\ Len(iters[i].yielded) = 2
        /\ iters[i].yielded[1].images = <<2>>
        /\ iters[i].warnings = 1

(***************************************************************************)
(* select_strategy (streaming.py): the parameters of the strategy the      *)
(* profile recommends.  estimated_time is kept in tenths of a second:      *)
(* max(1.0, N / 10.0), N * 0.5 and N * 0.3 are max(10, N), 5N and 3N.      *)
(* A page_count of 0 makes `//` raise ZeroDivisionError.                   *)
(***************************************************************************)
PDFAnalysis(file_size, page_count, estimated_memory, complexity_score, recommended_strategy) ==
    [file_size |-> file_size, page_count |-> page_count,
     estimated_memory |-> estimated_memory, complexity_score |-> complexity_score,
     recommended_strategy |-> recommended_strategy]

ProcessingStrategy(strategy_type, chunk_size, memory_limit, estimated_time) ==
    [error |-> "none", strategy_type |-> strategy_type, chunk_size |-> chunk_size,
     memory_limit |-> memory_limit, estimated_time |-> estimated_time]

\* Faulty variant: the smaller batch from a complexity of 70 on.
select_strategy_threshold_inclusive(pdf_analysis) ==
    LET n == pdf_analysis.page_count
        r == pdf_analysis.estimated_memory
    IN  IF pdf_analysis.recommended_strategy = "full_load"
        THEN ProcessingStrategy("full_load", n, r * 2, IF n > 10 THEN n ELSE 10)
        ELSE IF pdf_analysis.recommended_strategy = "stream_pages"
        THEN IF n = 0 THEN [error |-> "ZeroDivisionError"]
             ELSE ProcessingStrategy("stream_pages", 1, (r \div n) * 5, n * 5)
        ELSE LET chunk_size == IF pdf_analysis.complexity_score >= 70 THEN 5 ELSE 10 IN
             IF n = 0 THEN [error |-> "ZeroDivisionError"]
             ELSE ProcessingStrategy(pdf_analysis.recommended_strategy, chunk_size,
                                     (r \div n) * (chunk_size + 5), n * 3)

select_strategy(pdf_analysis) ==
    LET n == pdf_analysis.page_count
        r == pdf_analysis.estimated_memory
    IN  IF pdf_analysis.recommended_strategy = "full_load"
        THEN ProcessingStrategy("full_load", n, r * 2, IF n > 10 THEN n ELSE 10)
        ELSE IF pdf_analysis.recommended_strategy = "stream_pages"
        THEN IF n = 0 THEN [error |-> "ZeroDivisionError"]
             ELSE ProcessingStrategy("stream_pages", 1, (r \div n) * 5, n * 5)
        ELSE LET chunk_size == IF pdf_analysis.complexity_score > 70 THEN 5 ELSE 10 IN
             IF n = 0 THEN [error |-> "ZeroDivisionError"]
             ELSE ProcessingStrategy(pdf_analysis.recommended_strategy, chunk_size,
                                     (r \div n) * (chunk_size + 5), n * 3)

StrategyNames == {"full_load", "stream_pages", "chunk_batch"}

\* Profiles: page counts, recommended-memory values (the estimates of a 5MB
\* file of 20 pages and of a 150MB file of 500 pages among them) and scores.
\* The 200MB estimate goes with the documents of 20 pages and more, which
\* keeps every product within TLC's integers.
StratInputs ==
    {PDFAnalysis(0, n, r, c, st) :
        n \in {0, 1, 3, 20, 500},
        r \in {10 * 1024 * 1024 + 1, 5 * 1024 * 1024 + 5 * 10 * 1024 * 1024},
        c \in {30, 50, 70, 71, 90},
        st \in StrategyNames}
    \cup
    {PDFAnalysis(0, n, 150 * 1024 * 1024 + 5 * 10 * 1024 * 1024, c, st) :
        n \in {20, 500}, c \in {30, 50, 70, 71, 90}, st \in StrategyNames}

InitStrategy ==
    /\ doc = NoDocument
    /\ iters = NoIterators
    /\ selArgs = <<>> /\ selRet = "none" /\ memArgs = <<>> /\ memRet = NotCalled
    /\ call \in {[fn |-> "select_strategy", analysis |-> a] : a \in StratInputs}
    /\ ret = NotCalled
    /\ pipe = NoPipeline
    /\ NoFallbackCalls

SelectStrategyParamsCall ==
    /\ call.fn = "select_strategy"
    /\ ret = NotCalled
    /\ ret' = select_strategy(call.analysis)
    /\ UNCHANGED <<doc, iters, selArgs, selRet, memArgs, memRet, call, pipe,
                 _fallback_stats>>

NextStrategy == SelectStrategyParamsCall

SpecStrategy == InitStrategy /\ [][NextStrategy]_vars

Returned == ret # NotCalled

\* C16: select_strategy returns strategy_type = recommended_strategy, and
\* with R = estimated_memory, N = page_count: full_load has chunk_size N and
\* memory_limit 2R; stream_pages has chunk_size 1 and memory_limit
\* floor(R / N) x 5; chunk_batch has chunk_size 5 if complexity_score > 70
\* else 10 and memory_limit floor(R / N) x (chunk_size + 5).
StrategyParameters ==
    (Returned /\ call.fn = "select_strategy" /\ ret.error = "none")
    => LET a == call.analysis
           q == IF a.page_count = 0 THEN 0 ELSE a.estimated_memory \div a.page_count
       IN  /\ ret.strategy_type = a.recommended_strategy
           /\ a.recommended_strategy = "full_load" =>
                  (ret.chunk_size = a.page_count
                      /\ ret.memory_limit = a.estimated_memory + a.estimated_memory)
           /\ a.recommended_strategy = "stream_pages" =>
                  (ret.chunk_size = 1 /\ ret.memory_limit = q * 5)
           /\ a.recommended_strategy = "chunk_batch" =>
                  /\ ret.chunk_size = IF a.complexity_score > 70 THEN 5 ELSE 10
                  /\ ret.memory_limit = q * (ret.chunk_size + 5)

\* The 150MB / 500 pages / complexity 50 profile: chunk_batch, chunk_size 10,
\* memory_limit 419430 x 15, the quotient 209715200 / 500 being no integer.
StrategyChunkBatchScenario ==
    /\ Returned
    /\ call.fn = "select_strategy"
    /\ call.analysis.page_count = 500
    /\ call.analysis.estimated_memory = 209715200
    /\ call.analysis.complexity_score = 50
    /\ call.analysis.recommended_strategy = "chunk_batch"
    /\ ret.strategy_type = "chunk_batch"
    /\ ret.chunk_size = 10
    /\ ret.memory_limit = 6291450

(***************************************************************************)
(* The document engine as the assessment sees it.                          *)
(* A page answers doc[page_num] (access), page.get_images(full=True) with  *)
(* `images` entries, page.get_fonts(full=True) (fonts_ok) with one font    *)
(* name (font_info[3]) per entry of `fonts`, and page.get_text() (text_ok) *)
(* with a text of text_len characters, text_bad of them U+FFFD.            *)
(***************************************************************************)
AssessPage(images, fonts, text_len, text_bad) ==
    [access |-> TRUE, images |-> images, fonts_ok |-> TRUE, fonts |-> fonts,
     text_ok |-> TRUE, text_len |-> text_len, text_bad |-> text_bad]

CleanPage == AssessPage(0, <<"Helvetica">>, 100, 0)

\* Two of three fonts without a usable name.
NoNamePage == AssessPage(1, <<"", "Helvetica", "Invalid-1">>, 100, 10)

\* More than 10% replacement characters.
GarbledPage == AssessPage(3, [k \in 1..6 |-> "Helvetica"], 10, 2)

\* page.get_text() raises.
UnreadablePage == [AssessPage(6, [k \in 1..11 |-> "Helvetica"], 0, 0) EXCEPT !.text_ok = FALSE]

\* page.get_fonts() raises, after get_images answered.
NoFontsPage == [AssessPage(18, <<>>, 100, 0) EXCEPT !.fonts_ok = FALSE]

\* doc[page_num] raises.
BrokenPage == [AssessPage(0, <<>>, 0, 0) EXCEPT !.access = FALSE]

AssessPageKinds ==
    {CleanPage, NoNamePage, GarbledPage, UnreadablePage, NoFontsPage, BrokenPage}

\* An open document: doc.is_encrypted, doc.metadata["encryption"] and
\* doc.metadata["format"], and its pages.
AssessDocument(pages, is_encrypted, encryption, format) ==
    [exists |-> TRUE, openable |-> TRUE, pages |-> pages,
     is_encrypted |-> is_encrypted, encryption |-> encryption, format |-> format]

\* `version in pdf_format`, the format strings being "PDF x.y" or empty.
InFormat(version, pdf_format) == pdf_format = "PDF " \o version

(***************************************************************************)
(* _calculate_complexity_score (assessment.py).  Every increment is a      *)
(* whole number, so the float score is an integer; the float comparisons   *)
(* file_size / page_count > t and total / pages_to_sample > t are taken    *)
(* as file_size > t * page_count and total > t * pages_to_sample.          *)
(***************************************************************************)
\* Faulty variant: the sampling ends at the first page that raises.
RECURSIVE SamplePagesStopsAtFailure(_, _, _, _)
SamplePagesStopsAtFailure(d, page_num, pages_to_sample, acc) ==
    IF page_num >= pages_to_sample THEN acc
    ELSE LET page == d.pages[page_num + 1] IN
         IF ~page.access THEN [acc EXCEPT !.score = @ + 10]
         ELSE IF ~page.fonts_ok
         THEN [acc EXCEPT !.total_images = @ + page.images, !.score = @ + 10]
         ELSE SamplePagesStopsAtFailure(
                  d, page_num + 1, pages_to_sample,
                  [acc EXCEPT !.total_images = @ + page.images,
                              !.total_fonts = @ + Len(page.fonts)])

RECURSIVE SamplePages(_, _, _, _)
SamplePages(d, page_num, pages_to_sample, acc) ==
    IF page_num >= pages_to_sample THEN acc
    ELSE LET page == d.pages[page_num + 1]
             counted ==
                 IF ~page.access THEN [acc EXCEPT !.score = @ + 10]
                 ELSE IF ~page.fonts_ok
                 THEN [acc EXCEPT !.total_images = @ + page.images, !.score = @ + 10]
                 ELSE [acc EXCEPT !.total_images = @ + page.images,
                                  !.total_fonts = @ + Len(page.fonts)]
         IN  SamplePages(d, page_num + 1, pages_to_sample, counted)

RawComplexityScore(d, file_size, page_count) ==
    LET size_points ==
            IF page_count > 0 /\ file_size > 500 * 1024 * page_count THEN 30
            ELSE IF page_count > 0 /\ file_size > 200 * 1024 * page_count THEN 20
            ELSE IF page_count > 0 /\ file_size > 100 * 1024 * page_count THEN 10
            ELSE 0
        count_points ==
            IF page_count > 1000 THEN 20
            ELSE IF page_count > 500 THEN 15
            ELSE IF page_count > 100 THEN 10
            ELSE IF page_count > 50 THEN 5
            ELSE 0
        pages_to_sample == Min(3, page_count)
        sampled == SamplePages(d, 0, pages_to_sample,
                               [score |-> size_points + count_points,
                                total_images |-> 0, total_fonts |-> 0])
        image_points ==
            IF pages_to_sample > 0 /\ sampled.total_images > 5 * pages_to_sample THEN 15
            ELSE IF pages_to_sample > 0 /\ sampled.total_images > 2 * pages_to_sample THEN 10
            ELSE IF pages_to_sample > 0 /\ sampled.total_images > 0 THEN 5
            ELSE 0
        font_points ==
            IF pages_to_sample > 0 /\ sampled.total_fonts > 10 * pages_to_sample THEN 15
            ELSE IF pages_to_sample > 0 /\ sampled.total_fonts > 5 * pages_to_sample THEN 10
            ELSE IF pages_to_sample > 0 /\ sampled.total_fonts > 2 * pages_to_sample THEN 5
            ELSE 0
        metadata_points ==
            IF d.is_encrypted THEN 10
            ELSE IF d.encryption # "" THEN 5
            ELSE 0
        format_points ==
            IF InFormat("1.7", d.format) \/ InFormat("2.0", d.format) THEN 10
            ELSE IF InFormat("1.6", d.format) \/ InFormat("1.5", d.format) THEN 5
            ELSE 0
    IN  sampled.score + image_points + font_points + metadata_points + format_points

\* Faulty variant: the score returned without the cap.
_calculate_complexity_score_uncapped(d, file_size, page_count) ==
    RawComplexityScore(d, file_size, page_count)

_calculate_complexity_score(d, file_size, page_count) ==
    Min(RawComplexityScore(d, file_size, page_count), 100)

\* The sampled pages of a document of n pages: its first min(3, n).
SampledPageLists(n) == [1..Min(3, n) -> AssessPageKinds]

ComplexityPageCounts == {0, 1, 2, 3, 51, 101, 501, 1001}

\* Sizes on both sides of the 100KB, 200KB and 500KB per page thresholds.
ComplexityFileSizes(n) ==
    {n * 100 * 1024, n * 100 * 1024 + 1, n * 200 * 1024 + 1, n * 500 * 1024 + 1}

ComplexityEncryptions ==
    {<<FALSE, "">>, <<FALSE, "Standard V2 R3 128-bit RC4">>,
     <<TRUE, "Standard V2 R3 128-bit RC4">>}

ComplexityFormats == {"", "PDF 1.4", "PDF 1.5", "PDF 1.7", "PDF 2.0"}

InitComplexity ==
    /\ doc = NoDocument
    /\ iters = NoIterators
    /\ selArgs = <<>> /\ selRet = "none" /\ memArgs = <<>> /\ memRet = NotCalled
    /\ \E n \in ComplexityPageCounts :
           \E ps \in SampledPageLists(n), e \in ComplexityEncryptions,
              f \in ComplexityFormats, fs \in ComplexityFileSizes(n) :
               call = [fn |-> "_calculate_complexity_score",
                       doc |-> AssessDocument(ps, e[1], e[2], f),
                       file_size |-> fs, page_count |-> n]
    /\ ret = NotCalled
    /\ pipe = NoPipeline
    /\ NoFallbackCalls

ComplexityScoreCall ==
    /\ call.fn = "_calculate_complexity_score"
    /\ ret = NotCalled
    /\ ret' = [value |-> _calculate_complexity_score(call.doc, call.file_size,
                                                     call.page_count)]
    /\ UNCHANGED <<doc, iters, selArgs, selRet, memArgs, memRet, call, pipe,
                 _fallback_stats>>

NextComplexity == ComplexityScoreCall

SpecComplexity == InitComplexity /\ [][NextComplexity]_vars

\* C17: the complexity score lies in [0, 100] for every input.
ComplexityScoreInRange ==
    (Returned /\ call.fn = "_calculate_complexity_score")
    => (0 <= ret.value /\ ret.value <= 100)

\* The factors add up to 110 (30 + 20 + 10 + 10 + 15 + 5 + 10 + 10) and the
\* score returned is 100.
ComplexityScoreCapped ==
    /\ Returned
    /\ call.fn = "_calculate_complexity_score"
    /\ call.page_count = 1001
    /\ call.file_size = 1001 * 500 * 1024 + 1
    /\ call.doc.pages = <<NoFontsPage, BrokenPage, UnreadablePage>>
    /\ call.doc.is_encrypted
    /\ call.doc.format = "PDF 1.7"
    /\ ret.value = 100

(***************************************************************************)
(* detect_pdf_issues (assessment.py).  An issue's page_number is 1-indexed *)
(* and 0 stands for None, the page_number of a document-level issue.  The  *)
(* result keeps the indices the page loop asked the document for, in the   *)
(* order of the asking (page_reads).                                       *)
(***************************************************************************)
PDFIssueAt(issue_type, severity, page_number) ==
    [issue_type |-> issue_type, severity |-> severity, page_number |-> page_number]

\* not font_name or font_name.startswith("Invalid")
MissingFontName(font_name) == font_name = "" \/ font_name \in {"Invalid-1", "Invalid-2"}

\* Faulty variant: an inaccessible page is recorded as critical.
DetectPageCritical(d, page_num) ==
    LET page == d.pages[page_num + 1]
        bad_fonts == SelectSeq(page.fonts, MissingFontName)
    IN  IF ~page.access \/ ~page.fonts_ok
        THEN <<PDFIssueAt("corruption", "critical", page_num + 1)>>
        ELSE [k \in 1..Len(bad_fonts) |-> PDFIssueAt("missing_fonts", "medium", page_num + 1)]
             \o (IF ~page.text_ok
                 THEN <<PDFIssueAt("extraction", "high", page_num + 1)>>
                 ELSE IF page.text_bad * 10 > page.text_len
                 THEN <<PDFIssueAt("encoding", "medium", page_num + 1)>>
                 ELSE <<>>)

\* One pass of the page loop: the issues page_num adds.
DetectPage(d, page_num) ==
    LET page == d.pages[page_num + 1]
        bad_fonts == SelectSeq(page.fonts, MissingFontName)
    IN  IF ~page.access \/ ~page.fonts_ok
        THEN <<PDFIssueAt("corruption", "high", page_num + 1)>>
        ELSE [k \in 1..Len(bad_fonts) |-> PDFIssueAt("missing_fonts", "medium", page_num + 1)]
             \o (IF ~page.text_ok
                 THEN <<PDFIssueAt("extraction", "high", page_num + 1)>>
                 ELSE IF page.text_bad * 10 > page.text_len
                 THEN <<PDFIssueAt("encoding", "medium", page_num + 1)>>
                 ELSE <<>>)

\* Faulty variant: the loop ends at the first page that cannot be accessed.
RECURSIVE DetectLoopStopsOnFailure(_, _, _)
DetectLoopStopsOnFailure(d, page_num, acc) ==
    IF page_num >= doc_page_count(d) THEN acc
    ELSE LET scanned == [acc EXCEPT !.issues = @ \o DetectPage(d, page_num),
                                    !.page_reads = Append(@, page_num)]
         IN  IF ~d.pages[page_num + 1].access THEN scanned
             ELSE DetectLoopStopsOnFailure(d, page_num + 1, scanned)

\* for page_num in range(doc.page_count)
RECURSIVE DetectLoop(_, _, _)
DetectLoop(d, page_num, acc) ==
    IF page_num >= doc_page_count(d) THEN acc
    ELSE DetectLoop(d, page_num + 1,
                    [acc EXCEPT !.issues = @ \o DetectPage(d, page_num),
                                !.page_reads = Append(@, page_num)])

\* The probe of doc[0] and doc[-1]: doc[-1] is asked for only once doc[0]
\* answered, and one issue stands for either failure.
ProbeIssues(d) ==
    LET n == doc_page_count(d) IN
    IF n > 0 /\ (~d.pages[1].access \/ (n > 1 /\ ~d.pages[n].access))
    THEN <<PDFIssueAt("corruption", "critical", 0)>>
    ELSE <<>>

detect_pdf_issues(d) ==
    IF ~d.exists THEN [error |-> "FileNotFoundError"]
    ELSE IF ~d.openable
    THEN [error |-> "none", issues |-> <<PDFIssueAt("corruption", "critical", 0)>>,
          page_reads |-> <<>>, open_calls |-> 1, closes |-> 0]
    ELSE LET encryption == IF d.is_encrypted
                           THEN <<PDFIssueAt("encryption", "critical", 0)>>
                           ELSE <<>>
         IN  DetectLoop(d, 0, [error |-> "none",
                               issues |-> encryption \o ProbeIssues(d),
                               page_reads |-> <<>>, open_calls |-> 1, closes |-> 1])

AssessPageLists == UNION {[1..n -> AssessPageKinds] : n \in 0..MaxPages}

MissingAssessFile == [AssessDocument(<<>>, FALSE, "", "") EXCEPT !.exists = FALSE, !.openable = FALSE]

InvalidAssessFile == [AssessDocument(<<>>, FALSE, "", "") EXCEPT !.openable = FALSE]

InitDetect ==
    /\ doc = NoDocument
    /\ iters = NoIterators
    /\ selArgs = <<>> /\ selRet = "none" /\ memArgs = <<>> /\ memRet = NotCalled
    /\ \/ \E d \in {MissingAssessFile, InvalidAssessFile} :
              call = [fn |-> "detect_pdf_issues", doc |-> d]
       \/ \E ps \in AssessPageLists, e \in BOOLEAN :
              call = [fn |-> "detect_pdf_issues",
                      doc |-> AssessDocument(ps, e, IF e THEN "Standard V2 R3 128-bit RC4" ELSE "",
                                             "PDF 1.7")]
    /\ ret = NotCalled
    /\ pipe = NoPipeline
    /\ NoFallbackCalls

DetectIssuesCall ==
    /\ call.fn = "detect_pdf_issues"
    /\ ret = NotCalled
    /\ ret' = detect_pdf_issues(call.doc)
    /\ UNCHANGED <<doc, iters, selArgs, selRet, memArgs, memRet, call, pipe,
                 _fallback_stats>>

NextDetect == DetectIssuesCall

SpecDetect == InitDetect /\ [][NextDetect]_vars

\* The scan of an opened document has returned.
Scanned == Returned /\ call.fn = "detect_pdf_issues" /\ call.doc.openable

\* The 1-indexed numbers of the pages of d that doc[page_num] fails on.
InaccessiblePages(d) == {p \in 1..Len(d.pages) : ~d.pages[p].access}

\* The pages on which access, font listing or text extraction fails.
FailingPages(d) ==
    {p \in 1..Len(d.pages) :
        ~d.pages[p].access \/ ~d.pages[p].fonts_ok \/ ~d.pages[p].text_ok}

\* C18: detect_pdf_issues asks for every page index 0..N-1 exactly once, in
\* increasing order, whatever pages fail; every failing page has an issue
\* with its 1-indexed page_number; in the returned list the document-level
\* issues precede the per-page issues, and the per-page issues are in
\* non-decreasing page_number order.
ScanCoversEveryPageInOrder ==
    Scanned
    => /\ ret.page_reads = [k \in 1..Len(call.doc.pages) |-> k - 1]
       /\ \A p \in FailingPages(call.doc) :
              \E k \in DOMAIN ret.issues : ret.issues[k].page_number = p
       /\ \A i, j \in DOMAIN ret.issues :
              (i < j /\ ret.issues[j].page_number = 0) => ret.issues[i].page_number = 0
       /\ \A i, j \in DOMAIN ret.issues :
              (i < j /\ ret.issues[i].page_number > 0)
                  => ret.issues[i].page_number <= ret.issues[j].page_number

\* An encrypted document whose first page cannot be accessed, whose second
\* has two nameless fonts and whose third fails text extraction.
ScanWithFailuresOnThreePages ==
    /\ Scanned
    /\ call.doc.is_encrypted
    /\ call.doc.pages = <<BrokenPage, NoNamePage, UnreadablePage>>
    /\ ret.page_reads = <<0, 1, 2>>
    /\ ret.issues = <<PDFIssueAt("encryption", "critical", 0),
                      PDFIssueAt("corruption", "critical", 0),
                      PDFIssueAt("corruption", "high", 1),
                      PDFIssueAt("missing_fonts", "medium", 2),
                      PDFIssueAt("missing_fonts", "medium", 2),
                      PDFIssueAt("extraction", "high", 3)>>

\* The positions of the issues of the given kind and severity.
IssuesOf(issues, issue_type, severity) ==
    {k \in DOMAIN issues :
        issues[k].issue_type = issue_type /\ issues[k].severity = severity}

\* C19 (as stated): every page that cannot be accessed, be it the first, a
\* middle or the last one, is recorded as an issue of severity critical, and
\* the scan continues with the next page.
PageAccessFailureRecordedCritical ==
    Scanned
    => /\ ret.page_reads = [k \in 1..Len(call.doc.pages) |-> k - 1]
       /\ \A p \in InaccessiblePages(call.doc) :
              \E k \in IssuesOf(ret.issues, "corruption", "critical") :
                  \/ ret.issues[k].page_number = p
                  \/ (ret.issues[k].page_number = 0 /\ p \in {1, Len(call.doc.pages)})

\* C19 (amended): every page that cannot be accessed is recorded by exactly
\* one issue carrying its page number, of kind corruption and severity high,
\* and the scan continues with the next page; one document-level corruption
\* issue of severity critical is recorded besides exactly when the first or
\* the last page is among them.
PageAccessFailureRecordedHigh ==
    Scanned
    => /\ ret.page_reads = [k \in 1..Len(call.doc.pages) |-> k - 1]
       /\ \A p \in InaccessiblePages(call.doc) :
              /\ Cardinality({k \in DOMAIN ret.issues : ret.issues[k].page_number = p}) = 1
              /\ \E k \in IssuesOf(ret.issues, "corruption", "high") :
                     ret.issues[k].page_number = p
       /\ \A k \in IssuesOf(ret.issues, "corruption", "critical") :
              ret.issues[k].page_number = 0
       /\ Cardinality(IssuesOf(ret.issues, "corruption", "critical"))
              = IF InaccessiblePages(call.doc) \cap {1, Len(call.doc.pages)} # {}
                THEN 1 ELSE 0

\* Only the middle page of three cannot be accessed: one issue, of severity
\* high, and the third page is scanned.
MiddlePageFailureIsHigh ==
    /\ Scanned
    /\ ~call.doc.is_encrypted
    /\ call.doc.pages = <<CleanPage, BrokenPage, CleanPage>>
    /\ ret.page_reads = <<0, 1, 2>>
    /\ ret.issues = <<PDFIssueAt("corruption", "high", 2)>>

(***************************************************************************)
(* assess_pdf (assessment.py).  The result counts the fitz.open calls and  *)
(* the doc.close calls made on the way: assess_pdf, detect_pdf_issues and  *)
(* estimate_memory_usage each open the file once.                          *)
(***************************************************************************)
\* Faulty variant: the document is opened before the path is tested.
assess_pdf_opens_first(d, file_size) ==
    IF ~d.openable
    THEN [error |-> "ValueError: Invalid PDF file", open_calls |-> 1, closes |-> 0]
    ELSE IF ~d.exists THEN [error |-> "FileNotFoundError", open_calls |-> 1, closes |-> 1]
    ELSE LET page_count == doc_page_count(d)
             complexity_score == _calculate_complexity_score(d, file_size, page_count)
             issues_list == detect_pdf_issues(d).issues
             memory_estimate == estimate_memory_usage(file_size, page_count)
         IN  [error |-> "none",
              analysis |-> PDFAnalysis(file_size, page_count,
                                       memory_estimate.recommended_memory, complexity_score,
                                       _select_strategy(file_size, page_count,
                                                        complexity_score, issues_list)),
              issues |-> issues_list, open_calls |-> 3, closes |-> 3]

assess_pdf(d, file_size) ==
    IF ~d.exists THEN [error |-> "FileNotFoundError", open_calls |-> 0, closes |-> 0]
    ELSE IF ~d.openable
    THEN [error |-> "ValueError: Invalid PDF file", open_calls |-> 1, closes |-> 0]
    ELSE LET page_count == doc_page_count(d)
             complexity_score == _calculate_complexity_score(d, file_size, page_count)
             issues_list == detect_pdf_issues(d).issues
             memory_estimate == estimate_memory_usage(file_size, page_count)
         IN  [error |-> "none",
              analysis |-> PDFAnalysis(file_size, page_count,
                                       memory_estimate.recommended_memory, complexity_score,
                                       _select_strategy(file_size, page_count,
                                                        complexity_score, issues_list)),
              issues |-> issues_list, open_calls |-> 3, closes |-> 3]

\* The document the iterators read, as the assessment sees it: one font and
\* a clean text on every page that yields them.
AssessView(d, is_encrypted) ==
    [exists |-> d.exists, openable |-> d.openable,
     pages |-> [k \in 1..Len(d.pages) |->
                   [access |-> d.pages[k].access, images |-> Len(d.pages[k].images),
                    fonts_ok |-> TRUE, fonts |-> <<"Helvetica">>,
                    text_ok |-> d.pages[k].text, text_len |-> 100, text_bad |-> 0]],
     is_encrypted |-> is_encrypted,
     encryption |-> IF is_encrypted THEN "Standard V2 R3 128-bit RC4" ELSE "",
     format |-> "PDF 1.7"]

\* chunk_pdf calls whose overlap passes the parameter check.
ValidChunkIterators == {it \in ChunkIterators : it.overlap < it.chunk_pages}

\* One file, assessed once and read by one iterator.
InitAssess ==
    /\ doc \in Documents
    /\ \E it \in StreamIterators \cup ValidChunkIterators : iters = <<it>>
    /\ selArgs = <<>> /\ selRet = "none" /\ memArgs = <<>> /\ memRet = NotCalled
    /\ \E e \in BOOLEAN, fs \in {1024 * 1024, 150 * 1024 * 1024} :
           call = [fn |-> "assess_pdf", doc |-> AssessView(doc, e), file_size |-> fs]
    /\ ret = NotCalled
    /\ pipe = NoPipeline
    /\ NoFallbackCalls

AssessCall ==
    /\ call.fn = "assess_pdf"
    /\ ret = NotCalled
    /\ ret' = assess_pdf(call.doc, call.file_size)
    /\ UNCHANGED <<doc, iters, selArgs, selRet, memArgs, memRet, call, pipe,
                 _fallback_stats>>

NextAssess == AssessCall \/ \E i \in DOMAIN iters : StreamNext(i) \/ ChunkNext(i) \/ Close(i)

SpecAssess == InitAssess /\ [][NextAssess]_vars

\* An iterator whose body has run: it was stepped at least once.
Stepped(it) == it.pc \in {"suspended", "done", "failed"} \/ it.exists_checks > 0

\* C14: assess_pdf fails with FileNotFoundError when the path does not
\* exist, without a call of fitz.open, and with ValueError when the path
\* exists and fitz.open fails; neither way is a profile returned.
\* stream_pdf_pages and chunk_pdf, once stepped, fail the same two ways
\* and have yielded nothing.
MissingOrInvalidFileRejected ==
    /\ (Returned /\ call.fn = "assess_pdf")
       => /\ ~doc.exists
              => (ret.error = "FileNotFoundError" /\ ret.open_calls = 0)
          /\ (doc.exists /\ ~doc.openable) => ret.error = "ValueError: Invalid PDF file"
          /\ (doc.exists /\ doc.openable) => ret.error = "none"
          /\ ret.error # "none" => "analysis" \notin DOMAIN ret
    /\ \A i \in DOMAIN iters :
           LET it == iters[i] IN
           Stepped(it)
           => /\ ~doc.exists
                  => /\ it.pc = "failed" /\ it.error = "FileNotFoundError"
                     /\ it.open_calls = 0 /\ it.yielded = <<>>
              /\ (doc.exists /\ ~doc.openable)
                  => /\ it.pc = "failed" /\ it.error = "ValueError: Invalid PDF file"
                     /\ it.yielded = <<>>

\* An unopenable file, assessed and stepped through chunk_pdf: both raised
\* ValueError.
InvalidFileRejectedTwice ==
    /\ Returned
    /\ doc = InvalidFile
    /\ ret.error = "ValueError: Invalid PDF file"
    /\ iters[1].kind = "chunk"
    /\ iters[1].pc = "failed"
    /\ iters[1].error = "ValueError: Invalid PDF file"

(***************************************************************************)
(* The pipeline: process_large_pdf and _process_as_generator (main.py),    *)
(* should_use_fallback and extract_with_codex (fallback.py) and            *)
(* extract_page_full (extraction.py).                                      *)
(* A page of a pipeline document answers, besides what stream_pdf_pages    *)
(* asks of it, the questions of should_use_fallback: the length of its     *)
(* stripped text (chars), the number of its text blocks, whether their     *)
(* left edges spread over more than 70% of the page width (wide), the      *)
(* number of its fonts; and page.get_pixmap (pixmap), the one call of      *)
(* extract_with_codex that can raise.                                      *)
(* The text of page p being the token p, the text extract_with_codex       *)
(* returns for it is the token -p, and a string is the sequence of its     *)
(* tokens, the separator "\n\n" being the token 0.                         *)
(***************************************************************************)
PipelinePage(images, chars, text_blocks, wide, fonts, pixmap) ==
    [access |-> TRUE, text |-> TRUE, images |-> images, chars |-> chars,
     text_blocks |-> text_blocks, wide |-> wide, fonts |-> fonts, pixmap |-> pixmap]

StandardPage == PipelinePage(<<>>, 100, 5, FALSE, 2, TRUE)

ScannedPage == PipelinePage(<<TRUE>>, 3, 0, FALSE, 0, TRUE)

\* A scanned page that cannot be rendered.
ScannedNoRenderPage == PipelinePage(<<TRUE, FALSE>>, 0, 0, FALSE, 0, FALSE)

ColumnsPage == PipelinePage(<<>>, 100, 21, TRUE, 2, TRUE)

ManyFontsPage == PipelinePage(<<>>, 100, 5, FALSE, 16, FALSE)

LostPage == [StandardPage EXCEPT !.access = FALSE]

PipelinePageKinds ==
    {StandardPage, ScannedPage, ScannedNoRenderPage, ColumnsPage, ManyFontsPage, LostPage}

should_use_fallback(page, complexity_score) ==
    IF page.chars < 10 THEN [use |-> TRUE, reason |-> "scanned_pdf"]
    ELSE IF complexity_score > 85 THEN [use |-> TRUE, reason |-> "high_complexity"]
    ELSE IF page.text_blocks > 20 /\ page.wide
    THEN [use |-> TRUE, reason |-> "complex_layout"]
    ELSE IF page.fonts > 15 THEN [use |-> TRUE, reason |-> "many_fonts"]
    ELSE [use |-> FALSE, reason |-> "standard"]

\* `if api_key`: None and the empty string are no credential.
HasCredential(api_key) == api_key \notin {"None", ""}

CodexText(page_number) == 0 - page_number

\* Faulty variant: the counters are raised before the key is tested.
extract_with_codex_counts_first(page, page_number, api_key) ==
    IF ~HasCredential(api_key) THEN [error |-> "ValueError", counted |-> 1]
    ELSE IF ~page.pixmap THEN [error |-> "RuntimeError", counted |-> 1]
    ELSE [error |-> "none", counted |-> 1, text |-> CodexText(page_number)]

\* counted: the call went past the key test and raised the counters.
extract_with_codex(page, page_number, api_key) ==
    IF ~HasCredential(api_key) THEN [error |-> "ValueError", counted |-> 0]
    ELSE IF ~page.pixmap THEN [error |-> "RuntimeError", counted |-> 1]
    ELSE [error |-> "none", counted |-> 1, text |-> CodexText(page_number)]

\* tables go to the metadata, which is not kept.
extract_page_full(page, page_number, extract_images_flag, extract_tables_flag) ==
    PDFPage(page_number, page_number,
            IF extract_images_flag THEN ExtractImagesInline(page.images) ELSE <<>>)

\* Faulty variant: the texts are concatenated with nothing between them.
RECURSIVE JoinTextsNoSeparator(_)
JoinTextsNoSeparator(text_parts) ==
    IF text_parts = <<>> THEN <<>>
    ELSE <<Head(text_parts)>> \o JoinTextsNoSeparator(Tail(text_parts))

\* "\n\n".join(text_parts)
RECURSIVE JoinTexts(_)
JoinTexts(text_parts) ==
    IF text_parts = <<>> THEN <<>>
    ELSE IF Len(text_parts) = 1 THEN <<Head(text_parts)>>
    ELSE <<Head(text_parts), 0>> \o JoinTexts(Tail(text_parts))

(***************************************************************************)
(* A process_large_pdf call.                                               *)
(*   pc         "called"    the call has not run yet                       *)
(*              "created"   it returned the generator, no body code ran    *)
(*              "suspended", "done", "failed", "closed" as for iterators   *)
(*              "returned"  it returned a list or a text                   *)
(*   chunk_size the chunk size in effect after step 2 (0 in args: None)    *)
(*   inner      the stream_pdf_pages generator _process_as_generator pulls *)
(*   handle     the document _process_as_generator opens for itself        *)
(*   emitted    the pages _process_as_generator has yielded                *)
(*   progress_callback is None in these calls.                             *)
(***************************************************************************)
NewPipeline(args, file_size) ==
    [pc |-> "called", args |-> args, file_size |-> file_size, error |-> "none",
     exists_checks |-> 0, assess_calls |-> 0, analysis |-> NotCalled, chunk_size |-> 0,
     inner |-> NewIterator("stream", 1, 0, FALSE),
     handle |-> "none", open_calls |-> 0, closes |-> 0,
     emitted |-> <<>>, codex_calls |-> 0, result |-> <<>>]

\* Faulty variant: extract_with_codex is called whatever the key is, and its
\* failure blanks the text.
ProcessPageIgnoresCredential(args, complexity_score, d, page_obj) ==
    LET fitz_page == d.pages[page_obj.page_number]
        use_fallback == should_use_fallback(fitz_page, complexity_score).use
        codex == extract_with_codex(fitz_page, page_obj.page_number, "sk-other")
    IN  IF use_fallback
        THEN [page |-> [page_obj EXCEPT !.text = IF codex.error = "none" THEN codex.text ELSE 0],
              codex_calls |-> 1]
        ELSE [page |-> page_obj, codex_calls |-> 0]

\* Faulty variant: after the full extraction the fallback text is not put
\* back.
ProcessPageLosesFallbackText(args, complexity_score, d, page_obj) ==
    LET fitz_page == d.pages[page_obj.page_number]
        use_fallback == should_use_fallback(fitz_page, complexity_score).use
        with_key == use_fallback /\ HasCredential(args.fallback_api_key)
        codex == extract_with_codex(fitz_page, page_obj.page_number, args.fallback_api_key)
        replaced == IF with_key /\ codex.error = "none"
                    THEN [page_obj EXCEPT !.text = codex.text]
                    ELSE page_obj
        full == extract_page_full(fitz_page, page_obj.page_number,
                                  args.extract_images, args.extract_tables)
    IN  IF args.extract_images \/ args.extract_tables
        THEN [page |-> full, codex_calls |-> IF with_key THEN codex.counted ELSE 0]
        ELSE [page |-> replaced, codex_calls |-> IF with_key THEN codex.counted ELSE 0]

\* The body of the page loop of _process_as_generator, from the page pulled
\* to the page yielded, and the extract_with_codex calls it made.
ProcessPage(args, complexity_score, d, page_obj) ==
    LET fitz_page == d.pages[page_obj.page_number]
        use_fallback == should_use_fallback(fitz_page, complexity_score).use
        with_key == use_fallback /\ HasCredential(args.fallback_api_key)
        codex == extract_with_codex(fitz_page, page_obj.page_number, args.fallback_api_key)
        replaced == IF with_key /\ codex.error = "none"
                    THEN [page_obj EXCEPT !.text = codex.text]
                    ELSE page_obj
        full == extract_page_full(fitz_page, page_obj.page_number,
                                  args.extract_images, args.extract_tables)
    IN  IF args.extract_images \/ args.extract_tables
        THEN [page |-> IF with_key /\ codex.error = "none"
                       THEN [full EXCEPT !.text = codex.text]
                       ELSE full,
              codex_calls |-> IF with_key THEN 2 * codex.counted ELSE 0]
        ELSE [page |-> replaced, codex_calls |-> IF with_key THEN codex.counted ELSE 0]

\* Faulty variant: a page whose text the fallback replaced is not yielded.
PipelineLoopDropsFallbackPages(p, d) ==
    LET inner == StreamResume(p.inner, d, TRUE)
        pulled == [p EXCEPT !.inner = inner]
    IN  IF inner.pc = "failed"
        THEN [pulled EXCEPT !.pc = "failed", !.error = inner.error,
                            !.handle = "closed", !.closes = @ + 1]
        ELSE IF inner.pc = "done"
        THEN [pulled EXCEPT !.pc = "done", !.handle = "closed", !.closes = @ + 1]
        ELSE LET page_obj == inner.yielded[Len(inner.yielded)]
                 out == ProcessPage(p.args, p.analysis.complexity_score, d, page_obj)
             IN  [pulled EXCEPT !.pc = "suspended",
                                !.emitted = IF out.page.text = page_obj.text
                                            THEN Append(@, out.page) ELSE @,
                                !.codex_calls = @ + out.codex_calls]

\* One turn of `for page_obj in stream_pdf_pages(pdf_path, chunk_size=1, ...)`
\* up to the yield, or out of the loop through the finally block.
PipelineLoop(p, d) ==
    LET inner == StreamResume(p.inner, d, TRUE)
        pulled == [p EXCEPT !.inner = inner]
    IN  IF inner.pc = "failed"
        THEN [pulled EXCEPT !.pc = "failed", !.error = inner.error,
                            !.handle = "closed", !.closes = @ + 1]
        ELSE IF inner.pc = "done"
        THEN [pulled EXCEPT !.pc = "done", !.handle = "closed", !.closes = @ + 1]
        ELSE LET page_obj == inner.yielded[Len(inner.yielded)]
                 out == ProcessPage(p.args, p.analysis.complexity_score, d, page_obj)
             IN  [pulled EXCEPT !.pc = "suspended",
                                !.emitted = Append(@, out.page),
                                !.codex_calls = @ + out.codex_calls]

\* next() on the generator of _process_as_generator: the first call opens
\* the document, which assess_pdf has opened before.
PipelineResume(p, d) ==
    PipelineLoop(IF p.pc = "created"
                 THEN [p EXCEPT !.handle = "open", !.open_calls = @ + 1]
                 ELSE p, d)

\* list(generator), or a for loop over it, to the end of the generator.
RECURSIVE RunToEnd(_, _)
RunToEnd(p, d) ==
    IF p.pc \in {"created", "suspended"} THEN RunToEnd(PipelineResume(p, d), d) ELSE p

\* generator.close(): the finally block runs when the body had started, and
\* the stream_pdf_pages generator, no longer referenced, is closed with it.
ClosePipeline(p) ==
    IF p.pc = "suspended"
    THEN [p EXCEPT !.pc = "closed", !.handle = "closed", !.closes = @ + 1,
                   !.inner = CloseIterator(@)]
    ELSE [p EXCEPT !.pc = "closed"]

ValidFormats == {"generator", "list", "text"}

Texts(pages) == [k \in DOMAIN pages |-> pages[k].text]

process_large_pdf(p, d) ==
    LET checked == [p EXCEPT !.exists_checks = @ + 1]
        a == assess_pdf(AssessView(d, FALSE), p.file_size)
        assessed == [checked EXCEPT !.assess_calls = @ + 1,
                                    !.open_calls = @ + a.open_calls,
                                    !.closes = @ + a.closes]
        strategy == select_strategy(a.analysis)
        chunk_size == IF p.args.chunk_size # 0 THEN p.args.chunk_size
                      ELSE IF p.args.auto_strategy THEN strategy.chunk_size
                      ELSE 1
        ready == [assessed EXCEPT !.pc = "created", !.analysis = a.analysis,
                                  !.chunk_size = chunk_size]
        ran == RunToEnd(ready, d)
    IN  IF ~d.exists THEN [checked EXCEPT !.pc = "failed", !.error = "FileNotFoundError"]
        ELSE IF p.args.output_format \notin ValidFormats
        THEN [checked EXCEPT !.pc = "failed", !.error = "ValueError: output_format"]
        ELSE IF a.error # "none" THEN [assessed EXCEPT !.pc = "failed", !.error = a.error]
        ELSE IF p.args.auto_strategy /\ strategy.error # "none"
        THEN [assessed EXCEPT !.pc = "failed", !.error = strategy.error,
                              !.analysis = a.analysis]
        ELSE IF p.args.output_format = "generator" THEN ready
        ELSE IF ran.pc = "failed" THEN ran
        ELSE IF p.args.output_format = "list"
        THEN [ran EXCEPT !.pc = "returned", !.result = ran.emitted]
        ELSE [ran EXCEPT !.pc = "returned", !.result = JoinTexts(Texts(ran.emitted))]

PipelinePageLists == UNION {[1..n -> PipelinePageKinds] : n \in 0..MaxPipelinePages}

PipelineDocuments ==
    {MissingFile, InvalidFile}
        \cup {[exists |-> TRUE, openable |-> TRUE, pages |-> ps] : ps \in PipelinePageLists}

\* One file and one process_large_pdf call on it.
InitPipeline ==
    /\ doc \in PipelineDocuments
    /\ iters = NoIterators
    /\ selArgs = <<>> /\ selRet = "none" /\ memArgs = <<>> /\ memRet = NotCalled
    /\ call = <<>>
    /\ ret = NotCalled
    /\ \E output_format \in ValidFormats \cup {"json"},
          extract_images \in BOOLEAN, extract_tables \in BOOLEAN,
          fallback_api_key \in {"None", "", "sk-test"},
          chunk_size \in {0, 2}, auto_strategy \in BOOLEAN,
          file_size \in {1024 * 1024, 20 * 1024 * 1024} :
           pipe = NewPipeline([output_format |-> output_format,
                               extract_images |-> extract_images,
                               extract_tables |-> extract_tables,
                               fallback_api_key |-> fallback_api_key,
                               chunk_size |-> chunk_size,
                               auto_strategy |-> auto_strategy], file_size)
    /\ NoFallbackCalls

ProcessLargePdfCall ==
    /\ pipe.pc = "called"
    /\ pipe' = process_large_pdf(pipe, doc)
    /\ _fallback_stats' = CountCodexCalls(_fallback_stats, pipe'.codex_calls - pipe.codex_calls)
    /\ UNCHANGED <<doc, iters, selArgs, selRet, memArgs, memRet, call, ret>>

PipelineNext ==
    /\ pipe.pc \in {"created", "suspended"}
    /\ pipe' = PipelineResume(pipe, doc)
    /\ _fallback_stats' = CountCodexCalls(_fallback_stats, pipe'.codex_calls - pipe.codex_calls)
    /\ UNCHANGED <<doc, iters, selArgs, selRet, memArgs, memRet, call, ret>>

PipelineClose ==
    /\ pipe.pc \in {"created", "suspended"}
    /\ pipe' = ClosePipeline(pipe)
    /\ _fallback_stats' = CountCodexCalls(_fallback_stats, pipe'.codex_calls - pipe.codex_calls)
    /\ UNCHANGED <<doc, iters, selArgs, selRet, memArgs, memRet, call, ret>>

NextPipeline == ProcessLargePdfCall \/ PipelineNext \/ PipelineClose

SpecPipeline == InitPipeline /\ [][NextPipeline]_vars

\* The generator of _process_as_generator exists: steps 1 and 2 are over.
Started == pipe.pc \in {"created", "suspended", "done", "closed", "returned"}
               \/ (pipe.pc = "failed" /\ pipe.inner.pc = "failed")

EmitsOnePerPulled ==
    /\ Len(pipe.emitted) = Len(pipe.inner.yielded)
    /\ \A k \in DOMAIN pipe.emitted :
           pipe.emitted[k].page_number = pipe.inner.yielded[k].page_number
    /\ pipe.inner.page_reads <= Len(pipe.emitted) + 1

PullsAtMostOneAhead ==
    pipe.args.output_format = "generator"
    => /\ Len(pipe'.inner.yielded) <= Len(pipe.emitted) + 1
       /\ pipe'.inner.page_reads <= Len(pipe.emitted) + 1

FallbackTextIffRecommendedKeyedSucceeded ==
    (Started /\ ~pipe.args.extract_images /\ ~pipe.args.extract_tables)
    => /\ \A k \in DOMAIN pipe.emitted :
              LET pn == pipe.emitted[k].page_number
                  recommended ==
                      should_use_fallback(doc.pages[pn], pipe.analysis.complexity_score).use
              IN  pipe.emitted[k].text =
                      IF recommended /\ pipe.args.fallback_api_key \notin {"None", ""}
                             /\ doc.pages[pn].pixmap
                      THEN 0 - pn
                      ELSE pn
       /\ Len(pipe.emitted) = Len(pipe.inner.yielded)
       /\ pipe.pc = "failed" => pipe.error = pipe.inner.error
       /\ pipe.args.fallback_api_key \in {"None", ""} => pipe.codex_calls = 0

\* With a key, a scanned page emitted with the fallback text, a scanned page
\* whose fallback call failed emitted with its baseline text, and a standard
\* page.
FallbackUsedFailedAndNotNeeded ==
    /\ pipe.pc = "done"
    /\ ~pipe.args.extract_images /\ ~pipe.args.extract_tables
    /\ pipe.args.fallback_api_key = "sk-test"
    /\ doc.pages = <<ScannedPage, ScannedNoRenderPage, StandardPage>>
    /\ Texts(pipe.emitted) = <<0 - 1, 2, 3>>
    /\ pipe.codex_calls = 2

\* C13: an output_format outside generator, list and text makes
\* process_large_pdf raise ValueError before the path is tested, the
\* document assessed or opened, whatever the file is.
InvalidFormatRejectedBeforeIO ==
    (pipe.pc # "called" /\ pipe.args.output_format \notin {"generator", "list", "text"})
    => /\ pipe.pc = "failed"
       /\ pipe.error = "ValueError: output_format"
       /\ pipe.exists_checks = 0
       /\ pipe.assess_calls = 0
       /\ pipe.open_calls = 0

\* The same call with another output_format.
CallAs(output_format) ==
    process_large_pdf(NewPipeline([pipe.args EXCEPT !.output_format = output_format],
                                  pipe.file_size), doc)

\* C15: for the same document and flags, the list result is the sequence of
\* pages the generator yields, and the text result is the texts of that
\* sequence in page order with "\n\n" between consecutive ones; a run the
\* generator fails fails the other two calls with the same error.
OutputShapesAgree ==
    /\ (pipe.args.output_format = "generator" /\ pipe.pc = "done")
       => /\ CallAs("list").pc = "returned"
          /\ CallAs("list").result = pipe.emitted
          /\ CallAs("text").pc = "returned"
          /\ LET text == CallAs("text").result
                 n == Len(pipe.emitted)
             IN  /\ Len(text) = IF n = 0 THEN 0 ELSE 2 * n - 1
                 /\ \A k \in 1..n : text[2 * k - 1] = pipe.emitted[k].text
                 /\ \A k \in 1..(n - 1) : text[2 * k] = 0
    /\ (pipe.args.output_format = "generator" /\ pipe.pc = "failed")
       => /\ CallAs("list").pc = "failed" /\ CallAs("list").error = pipe.error
          /\ CallAs("text").pc = "failed" /\ CallAs("text").error = pipe.error

\* A generator run over three pages, the first with the fallback text.
ThreePagesInThreeShapes ==
    /\ pipe.args.output_format = "generator"
    /\ pipe.pc = "done"
    /\ Len(pipe.emitted) = 3
    /\ CallAs("list").result = pipe.emitted
    /\ CallAs("text").result = <<0 - 1, 0, 2, 0, 3>>

\* C20: the chunk size in effect (strategy.chunk_size under auto_strategy
\* when the caller gave none, else the caller's, else 1) is the chunk_size
\* stream_pdf_pages is run with.
PipelineHonorsChunkSize == Started => pipe.inner.chunk_pages = pipe.chunk_size

(***************************************************************************)
(* Properties of estimate_memory_usage (SpecMemory), continued.            *)
(***************************************************************************)
\* C21: per_page_avg is 10MB when file_size / page_count > 200KB, 2MB when
\* it is < 50KB (the ratio being 0 for page_count = 0) and 5MB otherwise;
\* min_memory = file_size + per_page_avg, recommended_memory = file_size +
\* 5 x per_page_avg, and peak_memory is 1.2 x (file_size + 10 x
\* per_page_avg) truncated to an integer.
MemoryEstimateFormula ==
    MemReturned
    => LET f == memArgs.file_size
           n == memArgs.page_count
           a == memRet.per_page_avg
       IN  /\ (n > 0 /\ f > 204800 * n) => a = 10485760
           /\ (n = 0 \/ f < 51200 * n) => a = 2097152
           /\ (n > 0 /\ f <= 204800 * n /\ f >= 51200 * n) => a = 5242880
           /\ memRet.min_memory = f + a
           /\ memRet.recommended_memory = f + a + a + a + a + a
           /\ 5 * memRet.peak_memory <= 6 * (f + 10 * a)
           /\ 6 * (f + 10 * a) < 5 * (memRet.peak_memory + 1)

\* Exactly 200KB per page: 5MB per page.
MemoryEstimateAtUpperThreshold ==
    /\ MemReturned
    /\ memArgs.page_count = 7
    /\ memArgs.file_size = 7 * 204800
    /\ memRet.per_page_avg = 5242880
    /\ memRet.recommended_memory = 7 * 204800 + 26214400

(***************************************************************************)
(* Properties of _calculate_complexity_score (SpecComplexity), continued.  *)
(***************************************************************************)
RECURSIVE SeqSum(_)
SeqSum(ns) == IF ns = <<>> THEN 0 ELSE Head(ns) + SeqSum(Tail(ns))

\* The examination of a sampled page raised.
SampleRaised(page) == ~page.access \/ ~page.fonts_ok

\* The sum of the weights, for given totals of images and fonts over the
\* sampled pages of the call.
WeightSum(total_images, total_fonts) ==
    LET f == call.file_size
        n == call.page_count
        k == Min(3, n)
        Over(total, t) == k > 0 /\ total > t * k
    IN  (IF n > 0 /\ f > 512000 * n THEN 30
         ELSE IF n > 0 /\ f > 204800 * n THEN 20
         ELSE IF n > 0 /\ f > 102400 * n THEN 10 ELSE 0)
        + (IF n > 1000 THEN 20 ELSE IF n > 500 THEN 15
           ELSE IF n > 100 THEN 10 ELSE IF n > 50 THEN 5 ELSE 0)
        + 10 * Cardinality({j \in 1..k : SampleRaised(call.doc.pages[j])})
        + (IF Over(total_images, 5) THEN 15 ELSE IF Over(total_images, 2) THEN 10
           ELSE IF Over(total_images, 0) THEN 5 ELSE 0)
        + (IF Over(total_fonts, 10) THEN 15 ELSE IF Over(total_fonts, 5) THEN 10
           ELSE IF Over(total_fonts, 2) THEN 5 ELSE 0)
        + (IF call.doc.is_encrypted THEN 10
           ELSE IF call.doc.encryption # "" THEN 5 ELSE 0)
        + (IF call.doc.format \in {"PDF 1.7", "PDF 2.0"} THEN 10
           ELSE IF call.doc.format \in {"PDF 1.5", "PDF 1.6"} THEN 5 ELSE 0)

\* The fonts of the sampled pages whose examination did not raise.
FontsOfExaminedPages ==
    SeqSum([j \in 1..Min(3, call.page_count) |->
               IF SampleRaised(call.doc.pages[j]) THEN 0
               ELSE Len(call.doc.pages[j].fonts)])

\* C22 (as stated): the score is min(100, S), S being the sum of the size,
\* page-count, encryption and format weights, of 10 for each sampled page
\* that could not be examined, and of the image and font weights taken from
\* the totals over the pages that could.
ComplexityScoreIsWeightSum ==
    (Returned /\ call.fn = "_calculate_complexity_score")
    => ret.value =
           Min(100, WeightSum(SeqSum([j \in 1..Min(3, call.page_count) |->
                                         IF SampleRaised(call.doc.pages[j]) THEN 0
                                         ELSE call.doc.pages[j].images]),
                              FontsOfExaminedPages))

\* C22 (amended): the same, except that the image total also holds the
\* images of a sampled page whose font listing raised after its image
\* listing answered; such a page adds 10 as well.
ComplexityScoreIsWeightSumOfCounted ==
    (Returned /\ call.fn = "_calculate_complexity_score")
    => ret.value =
           Min(100, WeightSum(SeqSum([j \in 1..Min(3, call.page_count) |->
                                         IF ~call.doc.pages[j].access THEN 0
                                         ELSE call.doc.pages[j].images]),
                              FontsOfExaminedPages))

\* One page of 100KB whose 18 images were listed before its font listing
\* raised: 10 for the failure and 15 for the images.
ComplexityScoreCountsImagesOfFailedPage ==
    /\ Returned
    /\ call.fn = "_calculate_complexity_score"
    /\ call.page_count = 1
    /\ call.file_size = 102400
    /\ call.doc.pages = <<NoFontsPage>>
    /\ ~call.doc.is_encrypted /\ call.doc.encryption = "" /\ call.doc.format = ""
    /\ ret.value = 25

(***************************************************************************)
(* Properties of chunk_pdf (Spec), continued.                              *)
(***************************************************************************)
\* ceil(n / s) for n >= 0 and s >= 1.
CeilDiv(n, s) == (n + s - 1) \div s

\* C23: for chunk_pages C >= 1 and 0 <= overlap O < C over N pages, window
\* i (0-based) holds the min(C, N - i(C-O)) consecutive pages that start at
\* page index i(C-O); no window holds more than C pages and a window
\* shorter than C is followed only by shorter ones; chunk_pdf never yields
\* more than ceil(N / (C-O)) windows, ends at the step after the last of
\* them, and has yielded exactly that many when it is exhausted.
ChunkWindowsByFormula ==
    \A i \in DOMAIN iters :
        LET it == iters[i]
            C == it.chunk_pages
            s == it.chunk_pages - it.overlap
            N == doc_page_count(doc)
        IN  (it.kind = "chunk" /\ C >= 1 /\ it.overlap >= 0 /\ it.overlap < C)
            => /\ Len(it.yielded) <= CeilDiv(N, s)
               /\ \A k \in DOMAIN it.yielded :
                      /\ PageNumbers(it.yielded[k])
                             = [j \in 1..Min(C, N - (k - 1) * s) |-> (k - 1) * s + j]
                      /\ Len(it.yielded[k]) <= C
                      /\ Len(it.yielded[k]) >= 1
                      /\ \A m \in DOMAIN it.yielded :
                             (k < m /\ Len(it.yielded[k]) < C)
                                 => Len(it.yielded[m]) < Len(it.yielded[k])
               /\ it.pc = "done" => Len(it.yielded) = CeilDiv(N, s)
               /\ (it.pc = "suspended" /\ Len(it.yielded) = CeilDiv(N, s))
                      => ChunkResume(it, doc).pc = "done"

\* chunk_pdf exhausted over 4 pages with chunk_pages 3 and overlap 1: the
\* windows [1,2,3] and [3,4].
TwoWindowsSecondShorter ==
    \E i \in DOMAIN iters :
        /\ iters[i].kind = "chunk"
        /\ iters[i].pc = "done"
        /\ iters[i].chunk_pages = 3
        /\ iters[i].overlap = 1
        /\ doc_page_count(doc) = 4
        /\ Len(iters[i].yielded) = 2
        /\ PageNumbers(iters[i].yielded[2]) = <<3, 4>>

\* C24: for every chunk_pages and overlap with overlap < chunk_pages,
\* whatever their signs, every page 1..page_count is in at least one of the
\* windows of an exhausted chunk_pdf.
AcceptedParametersCoverEveryPage ==
    \A i \in DOMAIN iters :
        LET it == iters[i] IN
        (it.kind = "chunk" /\ it.pc = "done" /\ it.overlap < it.chunk_pages)
        => \A p \in 1..doc_page_count(doc) :
               \E k \in DOMAIN it.yielded :
                   \E j \in DOMAIN it.yielded[k] : it.yielded[k][j].page_number = p

(***************************************************************************)
(* Properties of the pipeline (SpecPipeline), continued.                   *)
(***************************************************************************)
\* C25: with image or table extraction requested, the k-th emitted page is
\* the result of extract_page_full for page k (its number, its images when
\* images are requested and none otherwise); its text is the fallback text
\* when fallback is recommended for the page, a credential was supplied and
\* the call succeeds, and the extractor's own text otherwise; a failing
\* fallback call neither ends the run nor drops the page.
ExtendedRecordIsFullExtraction ==
    (Started /\ (pipe.args.extract_images \/ pipe.args.extract_tables))
    => /\ \A k \in DOMAIN pipe.emitted :
              LET recommended ==
                      should_use_fallback(doc.pages[k], pipe.analysis.complexity_score).use
                  used == /\ recommended
                          /\ pipe.args.fallback_api_key \notin {"None", ""}
                          /\ doc.pages[k].pixmap
              IN  /\ pipe.emitted[k].page_number = k
                  /\ pipe.emitted[k].images =
                         IF pipe.args.extract_images
                         THEN ExtractImagesInline(doc.pages[k].images)
                         ELSE <<>>
                  /\ pipe.emitted[k].text = IF used THEN 0 - k ELSE k
       /\ Len(pipe.emitted) = Len(pipe.inner.yielded)
       /\ pipe.pc = "failed" => pipe.error = pipe.inner.error

\* Tables requested with a key: a scanned page that cannot be rendered is
\* emitted with the extractor's text and without the images of the stream
\* record, then a scanned page with the fallback text.
ExtendedFallbackFailedThenUsed ==
    /\ pipe.pc = "done"
    /\ ~pipe.args.extract_images /\ pipe.args.extract_tables
    /\ pipe.args.fallback_api_key = "sk-test"
    /\ doc.pages = <<ScannedNoRenderPage, ScannedPage>>
    /\ Texts(pipe.emitted) = <<1, 0 - 2>>
    /\ pipe.emitted[1].images = <<>>
    /\ pipe.inner.yielded[1].images = <<1>>

(***************************************************************************)
(* Properties of stream_pdf_pages (Spec), continued.                       *)
(***************************************************************************)
\* C26: while the progress callback of stream_pdf_pages has not raised,
\* its k-th invocation carries (k, page_count); a consumer holding k pages
\* has caused exactly k invocations and exactly k page extractions; a page
\* whose extraction fails is not reported; exhausted, the stream has
\* reported every page once.
ProgressReportedOncePerPage ==
    \A i \in DOMAIN iters :
        LET it == iters[i] IN
        (it.kind = "stream" /\ it.has_callback /\ it.error # "CallbackError")
        => /\ it.progress = [k \in 1..Len(it.yielded) |-> <<k, doc_page_count(doc)>>]
           /\ it.error \notin PageErrors => it.page_reads = Len(it.progress)
           /\ it.error \in PageErrors => it.page_reads = Len(it.progress) + 1
           /\ it.pc = "done" => Len(it.progress) = doc_page_count(doc)

\* A consumer that closed the stream of a 4-page document after two pages:
\* the invocations (1, 4) and (2, 4), two pages extracted.
TwoPagesTwoReports ==
    \E i \in DOMAIN iters :
        /\ iters[i].kind = "stream"
        /\ iters[i].has_callback
        /\ iters[i].pc = "closed"
        /\ doc_page_count(doc) = 4
        /\ Len(iters[i].yielded) = 2
        /\ iters[i].progress = <<(<<1, 4>>), (<<2, 4>>)>>
        /\ iters[i].page_reads = 2

(***************************************************************************)
(* The fallback statistics specification: the functions of fallback.py     *)
(* that read or write _fallback_stats, called in any order.  ret holds the *)
(* outcome of the last call.  A page image is a sequence of bytes.         *)
(***************************************************************************)
MaxCalls == 3

\* `if not page_image or len(page_image) == 0`; the simulated extraction
\* cannot raise.
extract_with_chrome(page_image) ==
    IF Len(page_image) = 0 THEN [error |-> "ValueError", counted |-> 0]
    ELSE [error |-> "none", counted |-> 1, text |-> Len(page_image)]

CountChromeCalls(stats, n) ==
    [stats EXCEPT !.fallback_used = @ + n, !.chrome_calls = @ + n]

\* fallback_percentage is the fraction num / den.
get_fallback_stats(stats) ==
    [total_pages |-> stats.total_pages, fallback_used |-> stats.fallback_used,
     codex_calls |-> stats.codex_calls, chrome_calls |-> stats.chrome_calls,
     fallback_percentage |->
         IF stats.total_pages > 0
         THEN [num |-> stats.fallback_used * 100, den |-> stats.total_pages]
         ELSE [num |-> 0, den |-> 1]]

reset_fallback_stats == ZeroStats

increment_total_pages(stats) == [stats EXCEPT !.total_pages = @ + 1]

InitFallback ==
    /\ doc = NoDocument
    /\ iters = NoIterators
    /\ Idle

ExtractWithCodexCall ==
    /\ _fallback_stats.codex_calls < MaxCalls
    /\ \E page \in {ScannedPage, ScannedNoRenderPage}, api_key \in {"None", "", "sk-test"} :
           LET r == extract_with_codex(page, 1, api_key) IN
           /\ _fallback_stats' = CountCodexCalls(_fallback_stats, r.counted)
           /\ ret' = [fn |-> "extract_with_codex", error |-> r.error]
    /\ UNCHANGED <<doc, iters, selArgs, selRet, memArgs, memRet, call, pipe>>

ExtractWithChromeCall ==
    /\ _fallback_stats.chrome_calls < MaxCalls
    /\ \E page_image \in {<<>>, <<137, 80>>} :
           LET r == extract_with_chrome(page_image) IN
           /\ _fallback_stats' = CountChromeCalls(_fallback_stats, r.counted)
           /\ ret' = [fn |-> "extract_with_chrome", error |-> r.error]
    /\ UNCHANGED <<doc, iters, selArgs, selRet, memArgs, memRet, call, pipe>>

IncrementTotalPagesCall ==
    /\ _fallback_stats.total_pages < MaxCalls
    /\ _fallback_stats' = increment_total_pages(_fallback_stats)
    /\ ret' = [fn |-> "increment_total_pages", error |-> "none"]
    /\ UNCHANGED <<doc, iters, selArgs, selRet, memArgs, memRet, call, pipe>>

ResetFallbackStatsCall ==
    /\ _fallback_stats' = reset_fallback_stats
    /\ ret' = [fn |-> "reset_fallback_stats", error |-> "none"]
    /\ UNCHANGED <<doc, iters, selArgs, selRet, memArgs, memRet, call, pipe>>

GetFallbackStatsCall ==
    /\ ret' = [fn |-> "get_fallback_stats", error |-> "none",
               stats |-> get_fallback_stats(_fallback_stats)]
    /\ UNCHANGED <<doc, iters, selArgs, selRet, memArgs, memRet, call, pipe,
                 _fallback_stats>>

NextFallback ==
    \/ ExtractWithCodexCall
    \/ ExtractWithChromeCall
    \/ IncrementTotalPagesCall
    \/ ResetFallbackStatsCall
    \/ GetFallbackStatsCall

SpecFallback == InitFallback /\ [][NextFallback]_vars

\* The last call was rejected for an empty key or an empty image.
Rejected(r) ==
    /\ r # NotCalled
    /\ r.fn \in {"extract_with_codex", "extract_with_chrome"}
    /\ r.error = "ValueError"

FallbackCountersConsistent ==
    /\ _fallback_stats.fallback_used
           = _fallback_stats.codex_calls + _fallback_stats.chrome_calls
    /\ (ret # NotCalled /\ ret.fn = "reset_fallback_stats") => _fallback_stats = ZeroStats
    /\ (ret # NotCalled /\ ret.fn = "get_fallback_stats")
       => /\ ret.stats.total_pages = _fallback_stats.total_pages
          /\ ret.stats.fallback_used = _fallback_stats.fallback_used
          /\ ret.stats.codex_calls = _fallback_stats.codex_calls
          /\ ret.stats.chrome_calls = _fallback_stats.chrome_calls
          /\ _fallback_stats.total_pages = 0
                 => ret.stats.fallback_percentage.num = 0
          /\ _fallback_stats.total_pages > 0
                 => ret.stats.fallback_percentage.num * _fallback_stats.total_pages
                        = 100 * _fallback_stats.fallback_used
                              * ret.stats.fallback_percentage.den

\* C27: fallback_used = codex_calls + chrome_calls in every state; a call
\* rejected for an empty key or an empty image changes no counter;
\* reset_fallback_stats leaves the four counters at 0; get_fallback_stats
\* reports the counters, with fallback_percentage 0 when total_pages = 0 and
\* fallback_used / total_pages * 100 otherwise.
FallbackStatsAccounting ==
    /\ []FallbackCountersConsistent
    /\ [][Rejected(ret') => _fallback_stats' = _fallback_stats]_vars

\* A Codex call and a Chrome call counted, one page seen: 200%.
TwoFallbacksOnePage ==
    /\ ret # NotCalled
    /\ ret.fn = "get_fallback_stats"
    /\ ret.stats.total_pages = 1
    /\ ret.stats.codex_calls = 1
    /\ ret.stats.chrome_calls = 1
    /\ ret.stats.fallback_used = 2
    /\ ret.stats.fallback_percentage = [num |-> 200, den |-> 1]

\* C28: from reset counters, once the pipeline has emitted n pages of which
\* f carry the fallback text, get_fallback_stats reports total_pages = n
\* and fallback_used = f, whatever the extraction flags.
PipelineRunAccountedInStats ==
    Started
    => LET stats == get_fallback_stats(_fallback_stats) IN
       /\ stats.total_pages = Len(pipe.emitted)
       /\ stats.fallback_used
              = Cardinality({k \in DOMAIN pipe.emitted : pipe.emitted[k].text = 0 - k})

(***************************************************************************)
(* Properties of select_strategy (SpecStrategy), continued.                *)
(***************************************************************************)
\* C29: select_strategy returns a ProcessingStrategy and raises nothing for
\* every analysis with page_count >= 0 and one of the three strategy names
\* as recommended_strategy, page_count = 0 included.
SelectStrategyNeverRaises ==
    (Returned /\ call.fn = "select_strategy" /\ call.analysis.page_count >= 0
        /\ call.analysis.recommended_strategy \in StrategyNames)
    => ret.error = "none"

(***************************************************************************)
(* The two-iterator specification: two invocations of stream_pdf_pages or  *)
(* chunk_pdf whose steps interleave.  Here doc[i] is the document at the   *)
(* path given to iterator i (the same path is the same document), and      *)
(* iters[i].handle is the local variable `doc` of invocation i, bound to   *)
(* the object its own fitz.open call returned.                             *)
(***************************************************************************)
MaxSharedPages == 2

SharedDocuments ==
    {MissingFile}
        \cup {[exists |-> TRUE, openable |-> TRUE, pages |-> ps] :
                 ps \in UNION {[1..n -> {PlainPage, NoAccessPage}] : n \in 0..MaxSharedPages}}

SharedIterators ==
    StreamIterators
        \cup {it \in ChunkIterators :
                 it.chunk_pages \in 1..2 /\ it.overlap >= 0 /\ it.overlap < it.chunk_pages}

\* Faulty variant: the invocations share one handle per process, so the
\* finally block of one closes the document the others still read.
StepIteratorSharedHandle(its, i, d, cb_ok) ==
    LET stepped == IF its[i].kind = "stream" THEN StreamResume(its[i], d, cb_ok)
                   ELSE ChunkResume(its[i], d)
    IN  [j \in DOMAIN its |->
            IF j = i THEN stepped
            ELSE IF stepped.handle = "closed" /\ its[j].handle = "open"
            THEN [its[j] EXCEPT !.handle = "closed"]
            ELSE its[j]]

\* next() on iterator i: only the frame of that invocation runs.
StepIterator(its, i, d, cb_ok) ==
    [its EXCEPT ![i] = IF @.kind = "stream" THEN StreamResume(@, d, cb_ok)
                       ELSE ChunkResume(@, d)]

InitShared ==
    /\ doc \in [{1, 2} -> SharedDocuments]
    /\ iters \in [{1, 2} -> SharedIterators]
    /\ Idle

SharedNext(i) ==
    /\ iters[i].pc \in {"created", "suspended"}
    /\ \E cb_ok \in BOOLEAN : iters' = StepIterator(iters, i, doc[i], cb_ok)
    /\ UNCHANGED <<doc, selArgs, selRet, memArgs, memRet, call, ret, pipe,
                 _fallback_stats>>

SharedClose(i) ==
    /\ iters[i].pc \in {"created", "suspended"}
    /\ iters' = [iters EXCEPT ![i] = CloseIterator(@)]
    /\ UNCHANGED <<doc, selArgs, selRet, memArgs, memRet, call, ret, pipe,
                 _fallback_stats>>

NextShared ==
    \/ \E i \in {1, 2} : SharedNext(i)
    \/ \E i \in {1, 2} : SharedClose(i)

SpecShared == InitShared /\ [][NextShared]_vars

\* The iterator consumed alone to its end, its callback never raising.
RECURSIVE RunAlone(_, _)
RunAlone(it, d) ==
    IF it.pc \notin {"created", "suspended"} THEN it
    ELSE RunAlone(IF it.kind = "stream" THEN StreamResume(it, d, TRUE)
                  ELSE ChunkResume(it, d), d)

IsPrefix(s, t) == Len(s) <= Len(t) /\ s = SubSeq(t, 1, Len(s))

\* Each iterator is where it would be had it been consumed alone.
EachIteratorAsIfAlone ==
    \A i \in DOMAIN iters :
        LET it == iters[i]
            alone == RunAlone(NewIterator(it.kind, it.chunk_pages, it.overlap,
                                          it.has_callback), doc[i])
        IN  /\ IsPrefix(it.yielded, alone.yielded)
            /\ it.pc = "done" => (alone.pc = "done" /\ it.yielded = alone.yielded)
            /\ it.error \in PageErrors => it.yielded = alone.yielded
            /\ it.pc = "suspended" <=> it.handle = "open"
            /\ it.open_calls <= 1
            /\ it.closes <= 1
            /\ it.page_reads > 0 => it.open_calls = 1

\* C30: with two page iterators consumed in any interleaving, each one has
\* opened its own handle at most once and holds it open exactly while it is
\* suspended at a yield; a step, an exhaustion, a close or a failure of one
\* iterator changes nothing of the other; and each iterator yields, in
\* order, what it yields when consumed alone, all of it once exhausted.
IteratorsOwnTheirHandles ==
    /\ []EachIteratorAsIfAlone
    /\ [][\A i \in {1, 2} :
              iters'[i] # iters[i] => \A j \in {1, 2} \ {i} : iters'[j] = iters[j]]_vars

\* Over the same two-page document: the stream was exhausted and chunk_pdf,
\* started before that and still suspended on its open handle, has its first
\* window.
StreamDoneChunkStillOpen ==
    /\ doc[1] = doc[2]
    /\ Len(doc[1].pages) = 2
    /\ iters[1].kind = "stream" /\ iters[1].pc = "done" /\ iters[1].handle = "closed"
    /\ Len(iters[1].yielded) = 2
    /\ iters[2].kind = "chunk" /\ iters[2].chunk_pages = 1
    /\ iters[2].pc = "suspended" /\ iters[2].handle = "open"
    /\ Len(iters[2].yielded) = 1

====
